---- MODULE Spec2Model ----
(***************************************************************************)
(* A model of src/whatsapp_bot.py: the WhatsApp webhook, the per-user      *)
(* conversation store CONV_STATE and the turn router                       *)
(* process_incoming_message with the text functions it calls.              *)
(*                                                                         *)
(* Texts are strings; the regular expressions and keyword tests of the     *)
(* source are computed character by character.  External calls (document   *)
(* send, Gemini) may succeed or fail: an operation that makes one has a    *)
(* SET of outcomes, one per result of the call.                            *)
(***************************************************************************)
EXTENDS Naturals, Sequences, FiniteSets, TLC

VARIABLES CONV_STATE, last, delivered, call, sheet, polls, running

vars == <<CONV_STATE, last, delivered, call, sheet, polls, running>>

(***************************************************************************)
(* Bounds of the model.                                                    *)
(***************************************************************************)
\* messages delivered to the webhook in one behaviour
MaxTurns == 2
\* messages carried by one webhook delivery
MaxBatch == 2
\* characters of a text handed to detect_language on its own
MaxChars == 6
\* parts of a text handed to extract_budget_from_text on its own
MaxParts == 3
\* words of a question handed to extract_relevant_data on its own
MaxWords == 2
\* rows of the site-visit sheet
MaxRows == 3
\* runs of check_new_bookings in one behaviour
MaxPolls == 2

(***************************************************************************)
(* Characters and strings.                                                 *)
(***************************************************************************)
None == "<None>"

Digits == {"0", "1", "2", "3", "4", "5", "6", "7", "8", "9"}

LowerLetters == {"a", "b", "c", "d", "e", "f", "g", "h", "i", "j", "k", "l", "m",
                 "n", "o", "p", "q", "r", "s", "t", "u", "v", "w", "x", "y", "z"}

UpperLetters == {"A", "B", "C", "D", "E", "F", "G", "H", "I", "J", "K", "L", "M",
                 "N", "O", "P", "Q", "R", "S", "T", "U", "V", "W", "X", "Y", "Z"}

\* the characters of the Gujarati block U+0A80..U+0AFF that the model's texts use
GujaratiChars == {"ક", "મ", "છ", "ે", "ો", "સ", "ા", "ઇ", "ટ", "ભ", "વ"}

\* str.isspace characters the model's texts use
Whitespace == {" ", "\n", "\t"}

At(s, i) == SubSeq(s, i, i)

\* Python's \w on str: letters, digits and the underscore
IsWordChar(c) == c \in Digits \cup LowerLetters \cup UpperLetters \cup {"_", "ક", "મ", "છ", "સ", "ઇ", "ટ", "ભ", "વ"}

LowerChar(c) ==
    CASE c = "A" -> "a" [] c = "B" -> "b" [] c = "C" -> "c" [] c = "D" -> "d"
      [] c = "E" -> "e" [] c = "F" -> "f" [] c = "G" -> "g" [] c = "H" -> "h"
      [] c = "I" -> "i" [] c = "J" -> "j" [] c = "K" -> "k" [] c = "L" -> "l"
      [] c = "M" -> "m" [] c = "N" -> "n" [] c = "O" -> "o" [] c = "P" -> "p"
      [] c = "Q" -> "q" [] c = "R" -> "r" [] c = "S" -> "s" [] c = "T" -> "t"
      [] c = "U" -> "u" [] c = "V" -> "v" [] c = "W" -> "w" [] c = "X" -> "x"
      [] c = "Y" -> "y" [] c = "Z" -> "z"
      [] OTHER -> c

RECURSIVE LowerFrom(_, _)
LowerFrom(s, i) == IF i > Len(s) THEN "" ELSE LowerChar(At(s, i)) \o LowerFrom(s, i + 1)

\* str.lower()
Lower(s) == LowerFrom(s, 1)

RECURSIVE LStrip(_)
LStrip(s) == IF Len(s) > 0 /\ At(s, 1) \in Whitespace THEN LStrip(SubSeq(s, 2, Len(s))) ELSE s

RECURSIVE RStrip(_)
RStrip(s) == IF Len(s) > 0 /\ At(s, Len(s)) \in Whitespace THEN RStrip(SubSeq(s, 1, Len(s) - 1)) ELSE s

\* str.strip()
Strip(s) == RStrip(LStrip(s))

\* kw occurs in s at position i
OccursAt(s, kw, i) == i >= 1 /\ i + Len(kw) - 1 <= Len(s) /\ SubSeq(s, i, i + Len(kw) - 1) = kw

\* Python's  kw in s
Contains(s, kw) == \E i \in 1..(Len(s) + 1) : OccursAt(s, kw, i)

\* any(kw in s for kw in kws)
ContainsAny(s, kws) == \E k \in 1..Len(kws) : Contains(s, kws[k])

RECURSIVE Remove(_, _)
\* str.replace(c, '') for a one-character c
Remove(s, c) ==
    IF s = "" THEN ""
    ELSE (IF At(s, 1) = c THEN "" ELSE At(s, 1)) \o Remove(SubSeq(s, 2, Len(s)), c)

\* the end of the longest run of characters of set S starting at i (i - 1 if none)
RECURSIVE RunEnd(_, _, _)
RunEnd(s, i, S) == IF i <= Len(s) /\ At(s, i) \in S THEN RunEnd(s, i + 1, S) ELSE i - 1

\* every character of s[i..j] is in S, and the slice lies within s
AllIn(s, i, j, S) == i >= 1 /\ j <= Len(s) /\ \A k \in i..j : At(s, k) \in S

Min(S) == CHOOSE x \in S : \A y \in S : x <= y

(***************************************************************************)
(* detect_language                                                         *)
(***************************************************************************)
gujarati_chars(text) == Cardinality({i \in 1..Len(text) : At(text, i) \in GujaratiChars})

\* detect_language with the threshold included: at least 20%
detect_language_AtLeast(text) ==
    IF Len(text) > 0 /\ 5 * gujarati_chars(text) >= Len(text) THEN "gujarati" ELSE "english"

\* gujarati_chars / len(text) > 0.2, in integers: 5 * gujarati_chars > len(text)
detect_language(text) ==
    IF Len(text) > 0 /\ 5 * gujarati_chars(text) > Len(text) THEN "gujarati" ELSE "english"

(***************************************************************************)
(* The phone pattern  \b(?:\+91[\s-]?)?[6-9]\d{9}\b  under re.search.       *)
(***************************************************************************)
IsWordAt(s, k) == k >= 1 /\ k <= Len(s) /\ IsWordChar(At(s, k))

\* \b between the characters k - 1 and k
WordBoundary(s, k) == IsWordAt(s, k - 1) # IsWordAt(s, k)

\* [6-9]\d{9}\b starting at j: the index of its last character, or 0
PhoneCoreEnd(s, j) ==
    IF /\ j >= 1 /\ j + 9 <= Len(s)
       /\ At(s, j) \in {"6", "7", "8", "9"}
       /\ AllIn(s, j + 1, j + 9, Digits)
       /\ WordBoundary(s, j + 10)
    THEN j + 9 ELSE 0

\* the whole pattern starting at i: the index of its last character, or 0
PhoneMatchEnd(s, i) ==
    IF ~WordBoundary(s, i) THEN 0
    ELSE IF OccursAt(s, "+91", i)
         THEN IF i + 3 <= Len(s) /\ At(s, i + 3) \in Whitespace \cup {"-"}
                 /\ PhoneCoreEnd(s, i + 4) # 0
              THEN PhoneCoreEnd(s, i + 4)
              ELSE PhoneCoreEnd(s, i + 3)
         ELSE PhoneCoreEnd(s, i)

PhoneStarts(s) == {i \in 1..Len(s) : PhoneMatchEnd(s, i) # 0}

\* re.search(phone_pattern, s) finds a match
phone_match(s) == PhoneStarts(s) # {}

\* phone_match.group().replace(' ', '').replace('-', '')
phone_number(s) ==
    LET i == Min(PhoneStarts(s))
    IN  Remove(Remove(SubSeq(s, i, PhoneMatchEnd(s, i)), " "), "-")

(***************************************************************************)
(* The date pattern  \d{1,2}[/-]\d{1,2}[/-]\d{4}  under re.match.           *)
(***************************************************************************)
DateSeparators == {"/", "-"}

date_match(s) ==
    \E a \in 1..2, b \in 1..2 :
        /\ AllIn(s, 1, a, Digits)
        /\ AllIn(s, a + 1, a + 1, DateSeparators)
        /\ AllIn(s, a + 2, a + 1 + b, Digits)
        /\ AllIn(s, a + 2 + b, a + 2 + b, DateSeparators)
        /\ AllIn(s, a + 3 + b, a + 6 + b, Digits)

(***************************************************************************)
(* extract_budget_from_text                                                *)
(***************************************************************************)
\* (\d+\.?\d*) starting at i: the index of the group's last character, or 0.
\* The group is followed by \s* and a unit word, so it takes the whole run
\* of digits, a dot if one follows, and the whole run of digits after it.
AmountEnd(s, i) ==
    LET e1 == RunEnd(s, i, Digits)
    IN  IF e1 < i THEN 0
        ELSE IF e1 + 1 <= Len(s) /\ At(s, e1 + 1) = "." THEN RunEnd(s, e1 + 2, Digits)
        ELSE e1

\* (\d+\.?\d*)\s*(?:unit...) starting at i
AmountUnitAt(s, i, unit) ==
    /\ AmountEnd(s, i) # 0
    /\ OccursAt(s, unit, RunEnd(s, AmountEnd(s, i) + 1, Whitespace) + 1)

\* prefix\s*(\d+\.?\d*)\s*(?:unit...) starting at i; prefix "" for no prefix
PatternAt(s, i, prefix, unit) ==
    IF prefix = "" THEN AmountUnitAt(s, i, unit)
    ELSE /\ OccursAt(s, prefix, i)
         /\ AmountUnitAt(s, RunEnd(s, i + Len(prefix), Whitespace) + 1, unit)

PatternStarts(s, prefix, unit) == {i \in 1..Len(s) : PatternAt(s, i, prefix, unit)}

\* match.group(1) of re.search: the amount of the leftmost match
PatternGroup(s, prefix, unit) ==
    LET i == Min(PatternStarts(s, prefix, unit))
        g == IF prefix = "" THEN i ELSE RunEnd(s, i + Len(prefix), Whitespace) + 1
    IN  SubSeq(s, g, AmountEnd(s, g))

RECURSIVE StripLeadingZeros(_)
StripLeadingZeros(d) ==
    IF Len(d) > 1 /\ At(d, 1) = "0" THEN StripLeadingZeros(SubSeq(d, 2, Len(d))) ELSE d

RECURSIVE StripTrailingZeros(_)
StripTrailingZeros(d) ==
    IF Len(d) > 1 /\ At(d, Len(d)) = "0" THEN StripTrailingZeros(SubSeq(d, 1, Len(d) - 1)) ELSE d

\* f"{float(group)}" for a group  D+ | D+. | D+.D+  whose value prints without
\* an exponent (below 1e16, and 0 or at least 1e-4) in at most 15 digits
FormatFloat(group) ==
    LET e1   == RunEnd(group, 1, Digits)
        int  == SubSeq(group, 1, e1)
        frac == IF e1 + 2 <= Len(group) THEN SubSeq(group, e1 + 2, Len(group)) ELSE "0"
    IN  StripLeadingZeros(int) \o "." \o StripTrailingZeros(frac)

\* the rupee sign as the source file holds it: the three characters
\* U+00E2 U+201A U+00B9 ; U+201A is written <U+201A>, which no text of the
\* model contains
RupeePrefix == "â<U+201A>¹"

\* the patterns list with the lakh patterns tried before the crore patterns
patterns_LakhFirst == << <<"", "lakh", " Lakh">>,
                         <<"", "cr", " Cr">>,
                         <<RupeePrefix, "lakh", " Lakh">>,
                         <<RupeePrefix, "cr", " Cr">> >>

\* the patterns list: <<prefix, unit word every alternative starts with, suffix>>
patterns == << <<"", "cr", " Cr">>,
               <<"", "lakh", " Lakh">>,
               <<RupeePrefix, "cr", " Cr">>,
               <<RupeePrefix, "lakh", " Lakh">> >>

\* the for loop over patterns from index k: the first pattern that matches
RECURSIVE BudgetFrom(_, _)
BudgetFrom(text_lower, k) ==
    IF k > Len(patterns) THEN None
    ELSE IF PatternStarts(text_lower, patterns[k][1], patterns[k][2]) # {}
         THEN FormatFloat(PatternGroup(text_lower, patterns[k][1], patterns[k][2]))
                  \o patterns[k][3]
         ELSE BudgetFrom(text_lower, k + 1)

extract_budget_from_text(text) == BudgetFrom(Lower(text), 1)

(***************************************************************************)
(* Python dicts: functions on a set of keys.                               *)
(***************************************************************************)
EmptyDict == <<>>

\* d[k] = v
Put(d, k, v) == [x \in DOMAIN d \cup {k} |-> IF x = k THEN v ELSE d[x]]

\* d.get(k, default)
GetOr(d, k, default) == IF k \in DOMAIN d THEN d[k] ELSE default

(***************************************************************************)
(* Configuration and the fixed texts of the replies.  A reply keeps the    *)
(* words that tell it from the others; the name reply embeds the user's    *)
(* text and number as the source's f-string does.                          *)
(***************************************************************************)
GEMINI_API_KEY == "configured"

BROCHURE_MEDIA_ID == "1562506805130847"

REPLY_PHONE_SEND_FAILED ==
    "I apologize, but there was an issue sending the brochure to your WhatsApp. Please try again later or contact our agent directly at +91 1234567890."

REPLY_PHONE_INVALID ==
    "I didn't find a valid phone number. Please share your *10-digit mobile number* to send the brochure. For example: 9876543210 or +91 9876543210"

REPLY_BROCHURE_SEND_FAILED ==
    "I apologize, but there was an issue sending the brochure. Please contact our agent at +91 1234567890 for assistance."

REPLY_CONFIRMED_SEND_FAILED ==
    "There was an issue sending your brochure on WhatsApp. Please contact our agent at +91 1234567890."

REPLY_CONTACT ==
    "Great! You can reach our agent, Shatranj, directly on WhatsApp at: *WhatsApp Number:* +91 1234567890 Our team will respond within 30 minutes during office hours (10 AM - 7 PM)."

english_form_url == "https://docs.google.com/forms/d/e/1FAIpQLSceds-nIr9vTLHJ0Jl1TOv0DNYGQhb0CtEa2R3mA9Ae3iP8Lg/viewform"

gujarati_form_url == "https://docs.google.com/forms/d/e/1FAIpQLSdmWOyIDKZ5KU47LhzKUJXwITN40Fn8tV8swuX7IIWFvB72qQ/viewform"

REPLY_BOOKING_FORM_GUJARATI == "[gujarati] site visit booking form: " \o gujarati_form_url

REPLY_BOOKING_FORM_ENGLISH == "*Book Your Site Visit to Brookstone* form: " \o english_form_url

REPLY_ASK_CONFIRM_PHONE(message_text, from_phone) ==
    "Thank you, " \o message_text \o "! I have your phone number as: *" \o from_phone
        \o "* Reply with: *Yes* to confirm this number Or type your *alternate number*"

REPLY_CONFIRM_PHONE_INVALID ==
    "Please provide a valid 10-digit phone number or type *Yes* to confirm the existing number."

REPLY_ASK_DATE == "Great! Now, please tell me your *preferred date* for the site visit. Format: DD/MM/YYYY"

REPLY_DATE_INVALID == "Please provide the date in the correct format (DD/MM/YYYY)."

REPLY_ASK_TIME == "Perfect! Now, please select your *preferred time* for the site visit. Reply with the slot number (1-5) or type the time."

REPLY_ASK_UNIT_TYPE == "Excellent! Which unit type are you interested in? Please reply with 1, 2, or 3."

REPLY_UNIT_TYPE_INVALID == "Please select a valid option: 1 for 3 BHK 2 for 4 BHK 3 for Both options"

REPLY_ASK_BUDGET == "Almost done! What is your *approximate budget*?"

REPLY_BUDGET_INVALID == "Please specify your budget in a clear format: Example: 1.5 Cr, 2 Crore, or 150 Lakhs"

REPLY_BOOKING_COMPLETE == "To complete your booking, please fill out our site visit form: " \o english_form_url

GEMINI_NOT_CONFIGURED == "Please configure your Gemini API key"

GEMINI_FALLBACK ==
    "Sorry, I'm having trouble answering right now. Please try again or contact our agent at +91 1234567890."

\* the texts the Gemini backend returns in the model
GeminiAnswers == {"Brookstone offers 3 and 4 BHK homes. Would you like the price list?"}

(***************************************************************************)
(* Keyword lists of process_incoming_message.                              *)
(***************************************************************************)
brochure_keywords ==
    <<"brochure", "pdf", "download", "send brochure", "share brochure", "floor plan", "send pdf">>

affirmative_patterns ==
    <<"yes", "yeah", "yup", "sure", "ok", "okay", "please", "send", "want", "need">>

contact_patterns ==
    <<"whatsapp chat", "whatsapp number", "agent whatsapp", "contact agent", "agent contact",
      "talk to agent">>

booking_keywords_english ==
    <<"book site visit", "schedule visit", "site visit", "book appointment", "visit booking">>

\* The source file holds these five literals as mis-decoded text: characters
\* of U+00A0..U+00FF and the five characters U+0153, U+0178, U+2021, U+2022,
\* U+2039, written <U+....> here; no text of the model contains those five.
booking_keywords_gujarati ==
    <<"àª¸àª¾àª<U+2021>àª<U+0178> àªµàª¿àªàª¿àª<U+0178>",
      "àªàªªà«<U+2039>àª<U+2021>àª¨à«àª<U+0178>àª®à«<U+2021>àª¨à«àª<U+0178>",
      "àªµàª¿àªàª¿àª<U+0178> àª¬à«àª<U+2022>",
      "àª®à«àª²àª¾àª<U+2022>àª¾àª¤",
      "àª¸àª¾àª<U+2021>àª<U+0178> àª<U+0153>à«<U+2039>àªµàª¾">>

time_slots == [x \in {"1", "2", "3", "4", "5"} |->
                 CASE x = "1" -> "10:00 AM" [] x = "2" -> "11:30 AM" [] x = "3" -> "02:00 PM"
                   [] x = "4" -> "03:30 PM" [] x = "5" -> "05:00 PM"]

unit_types == [x \in {"1", "2", "3"} |->
                 CASE x = "1" -> "3 BHK" [] x = "2" -> "4 BHK" [] x = "3" -> "Both 3 & 4 BHK"]

\* the values of booking_info['current_step'], in the order of the elif chain
BookingSteps == <<"name", "confirm_phone", "date", "time", "unit_type", "budget">>

(***************************************************************************)
(* The conversation state and the outcomes of a turn.                      *)
(***************************************************************************)
\* the dict stored in CONV_STATE on first contact
NewState(from_phone) ==
    [chat_history |-> <<>>,
     lead_capture_mode |-> None,
     user_phone |-> from_phone,
     language |-> "english",
     asked_about_brochure |-> FALSE,
     booking_info |-> EmptyDict]

\* Returns with the append to chat_history left out
Returns_NoAppend(conv, from_phone, state, reply, calls) ==
    [conv |-> Put(conv, from_phone, state), reply |-> reply, raised |-> FALSE, calls |-> calls]

\* Returns with one chat_history list shared by all conversations: the reply
\* is appended to every sender's history
Returns_SharedHistory(conv, from_phone, state, reply, calls) ==
    [conv |-> [q \in DOMAIN Put(conv, from_phone, state) |->
                  [Put(conv, from_phone, state)[q]
                      EXCEPT !.chat_history = Append(@, <<reply, FALSE>>)]],
     reply |-> reply, raised |-> FALSE, calls |-> calls]

\* state['chat_history'].append((reply, False)); return reply
Returns(conv, from_phone, state, reply, calls) ==
    [conv |-> Put(conv, from_phone,
                  [state EXCEPT !.chat_history = Append(@, <<reply, FALSE>>)]),
     reply |-> reply, raised |-> FALSE, calls |-> calls]

\* return None
ReturnsNone(conv, from_phone, state, calls) ==
    [conv |-> Put(conv, from_phone, state), reply |-> None, raised |-> FALSE, calls |-> calls]

\* an uncaught exception leaves the function; what it wrote so far stays
Raises(conv, from_phone, state, calls) ==
    [conv |-> Put(conv, from_phone, state), reply |-> None, raised |-> TRUE, calls |-> calls]

\* the results of send_whatsapp_document: True on status 200, else False
SendResults == BOOLEAN

DocumentCall(to_phone, success) ==
    [op |-> "send_whatsapp_document", to |-> to_phone, document_id |-> BROCHURE_MEDIA_ID,
     ok |-> success]

\* SendBrochure with a second send_whatsapp_document after a failed one
SendBrochure_Resends(conv, from_phone, state, to_phone, apology) ==
    {ReturnsNone(conv, from_phone, state, <<DocumentCall(to_phone, TRUE)>>)}
    \cup {IF success
            THEN ReturnsNone(conv, from_phone, state,
                             <<DocumentCall(to_phone, FALSE), DocumentCall(to_phone, success)>>)
            ELSE Returns(conv, from_phone, state, apology,
                         <<DocumentCall(to_phone, FALSE), DocumentCall(to_phone, success)>>)
          : success \in SendResults}

\* success = send_whatsapp_document(to, BROCHURE_MEDIA_ID); the apology is
\* appended and returned if not success, else None is returned
SendBrochure(conv, from_phone, state, to_phone, apology) ==
    {IF success
       THEN ReturnsNone(conv, from_phone, state, <<DocumentCall(to_phone, success)>>)
       ELSE Returns(conv, from_phone, state, apology, <<DocumentCall(to_phone, success)>>)
     : success \in SendResults}

(***************************************************************************)
(* extract_relevant_data.  A knowledge tree is a dict from section names   *)
(* to sections; a section is modelled by the language of its tree, its     *)
(* name and the keys it holds, and what the function builds from sections  *)
(* by the parts it was built from.                                         *)
(***************************************************************************)
ground_floor_keywords ==
    <<"ground floor", "ground level", "ground", "facility", "amenity", "foyer",
      "entrance", "gym", "library", "toddler", "children", "play", "lift", "elevator",
      "stair", "parking", "society office", "reception">>

\* mis-decoded in the source file like booking_keywords_gujarati: every
\* character above U+00FF is written <U+....>
gujarati_keywords ==
    <<"àª<U+2014>à«àª°àª¾àª<U+2030>àª¨à«àª¡",
      "àª¨à«<U+20AC>àª<U+0161>àª²à«<U+2039> àª®àª¾àª³", "àª«à«<U+2039>àª¯àª°",
      "àªªà«àª°àªµà«<U+2021>àª¶", "àª<U+0153>à«<U+20AC>àª®",
      "àª²àª¾àª<U+2021>àª¬à«àª°à«<U+2021>àª°à«<U+20AC>",
      "àª¬àª¾àª³àª<U+2022>à«<U+2039>", "àª°àª®àª¤", "àª²àª¿àª«à«àª<U+0178>",
      "àªàª²àª¿àªµà«<U+2021>àª<U+0178>àª°", "àª¸à«<U+20AC>àª¡à«<U+20AC>",
      "àªªàª¾àª°à«àª<U+2022>àª¿àª<U+201A>àª<U+2014>",
      "àª¸à«<U+2039>àª¸àª¾àª¯àª<U+0178>à«<U+20AC> àª<U+201C>àª«àª¿àª¸",
      "àª°àª¿àª¸à«<U+2021>àªªà«àª¶àª¨", "àª¸à«àªµàª¿àª§àª¾">>

flat_keywords ==
    <<"3bhk", "3 bhk", "3-bhk", "three bedroom", "three bed", "4bhk", "4 bhk", "4-bhk",
      "four bedroom", "four bed">>

gujarati_flat_keywords ==
    <<"àª¤à«àª°àª£ àª¬à«<U+2021>àª¡àª°à«<U+201A>àª®",
      "à«© àª¬à«<U+20AC>àªàª<U+0161>àª<U+2022>à«<U+2021>",
      "àª¤à«àª°àª£ àª¬à«<U+20AC>àªàª<U+0161>àª<U+2022>à«<U+2021>",
      "àª<U+0161>àª¾àª° àª¬à«<U+2021>àª¡àª°à«<U+201A>àª®",
      "à«ª àª¬à«<U+20AC>àªàª<U+0161>àª<U+2022>à«<U+2021>",
      "àª<U+0161>àª¾àª° àª¬à«<U+20AC>àªàª<U+0161>àª<U+2022>à«<U+2021>">>

all_keywords ==
    ground_floor_keywords \o gujarati_keywords \o flat_keywords \o gujarati_flat_keywords

\* the keyword lists written inside the conditions, by the line of the condition
three_bhk_keywords ==
    <<"3bhk", "3 bhk", "3-bhk", "three bedroom",
      "àª¤à«àª°àª£ àª¬à«<U+2021>àª¡àª°à«<U+201A>àª®",
      "à«© àª¬à«<U+20AC>àªàª<U+0161>àª<U+2022>à«<U+2021>",
      "àª¤à«àª°àª£ àª¬à«<U+20AC>àªàª<U+0161>àª<U+2022>à«<U+2021>">>

four_bhk_keywords ==
    <<"4bhk", "4 bhk", "4-bhk", "four bedroom",
      "àª<U+0161>àª¾àª° àª¬à«<U+2021>àª¡àª°à«<U+201A>àª®",
      "à«ª àª¬à«<U+20AC>àªàª<U+0161>àª<U+2022>à«<U+2021>",
      "àª<U+0161>àª¾àª° àª¬à«<U+20AC>àªàª<U+0161>àª<U+2022>à«<U+2021>">>

ground_query_keywords ==
    <<"ground floor", "ground level", "ground", "foyer", "entrance", "multipurpose",
      "court", "gym", "library", "toddler", "society", "seating", "lift", "stair",
      "amenity", "facility", "drop">>

block_a_keywords ==
    <<"society", "toddler", "right side", "security">>

block_b_keywords ==
    <<"gym", "library", "left side">>

central_keywords ==
    <<"central", "amenity", "court", "sand pit", "lawn", "facility", "fountain">>

unit_keywords ==
    <<"3bhk", "3 bhk", "price", "cost", "bhk", "bedroom", "size", "sqft",
      "configuration", "apartment", "flat", "carpet", "area", "dimension">>

room_keywords ==
    <<"kitchen", "room", "bedroom", "living", "dining", "bathroom", "toilet",
      "balcony">>

elevator_keywords ==
    <<"elevator", "lift">>

parking_keywords ==
    <<"parking", "car park", "vehicle">>

specification_keywords ==
    <<"structure", "flooring", "bathroom", "kitchen", "elevator", "electrical",
      "doors", "windows", "security", "water", "specifications", "features">>

lift_keywords ==
    <<"elevator", "lift", "lifts">>

car_keywords ==
    <<"parking", "car park", "vehicle", "cars">>

construction_keywords ==
    <<"structure", "flooring", "bathroom", "kitchen", "electrical", "doors", "windows",
      "security", "water", "specifications", "features">>

amenity_keywords ==
    <<"amenity", "amenities", "facility", "gym", "pool", "park", "club">>

location_keywords ==
    <<"location", "address", "connectivity", "metro", "nearby", "landmark">>

possession_keywords ==
    <<"possession", "ready", "completion", "timeline", "delivery">>

developer_keywords ==
    <<"developer", "shatranj", "aarat", "group", "company", "builder">>

\* the sections merged when the result is small
fallback_sections ==
    <<"unit_configurations", "pricing", "3bhk_unit_plan", "4bhk_unit_plan",
      "amenities", "location_details">>

\* a section of the tree of `language`, and the value under one of its keys
Section(language, name, keys) == [of |-> language, section |-> name, keys |-> keys]

Sub(section, key) == [of |-> section.of, section |-> section.section \o "." \o key, keys |-> {}]

\* section.get(key, default)
SubOr(section, key, default) == IF key \in section.keys THEN Sub(section, key) ELSE default

\* lang_data.get(name, {}).get(key)
SubOfOr(lang_data, name, key) ==
    IF name \in DOMAIN lang_data THEN SubOr(lang_data[name], key, None) ELSE None

\* a dict the function writes out itself, and one it builds from parts
Literal(name) == [literal |-> name]

Built(name, parts) == [built |-> name, parts |-> parts]

\* relevant_data while the function runs: the dict, and whether a KeyError
\* has left the function
Started == [data |-> EmptyDict, raised |-> FALSE]

Merge(r, key, value) == [r EXCEPT !.data = Put(@, key, value)]

KeyError(r) == [r EXCEPT !.raised = TRUE]

\* if name in lang_data: relevant_data[key] = lang_data[name]
MergeSection(r, lang_data, key, name) ==
    IF name \in DOMAIN lang_data THEN Merge(r, key, lang_data[name]) ELSE r

ProjectInfo(lang_data, r) == MergeSection(r, lang_data, "project_info", "project_info")

\* the unit_plan, pricing and parking slice of one flat type
FlatSlice(lang_data, r, flat, plan, price, parking) ==
    IF plan \in DOMAIN lang_data
    THEN Merge(Merge(Merge(r, "unit_plan", lang_data[plan]),
                     "pricing", Built(flat, <<SubOfOr(lang_data, "pricing", price)>>)),
               "parking", Built(flat, <<SubOfOr(lang_data, "parking", parking)>>))
    ELSE r

\* if 'construction_specifications' in lang_data and 'elevator' in it
MergeElevator(lang_data, r) ==
    IF /\ "construction_specifications" \in DOMAIN lang_data
       /\ "elevator" \in lang_data["construction_specifications"].keys
    THEN Merge(r, "elevator", Sub(lang_data["construction_specifications"], "elevator"))
    ELSE r

FacilityAndFlat(q, lang_data, r) ==
    IF ~ContainsAny(q, all_keywords) THEN r
    ELSE LET flat == IF ContainsAny(q, three_bhk_keywords)
                     THEN FlatSlice(lang_data, r, "3bhk", "3bhk_unit_plan", "box_price_2650",
                                    "3bhk_parking")
                     ELSE IF ContainsAny(q, four_bhk_keywords)
                     THEN FlatSlice(lang_data, r, "4bhk", "4bhk_unit_plan", "box_price_3850",
                                    "4bhk_parking")
                     ELSE r
         IN  MergeElevator(lang_data,
                           MergeSection(flat, lang_data, "ground_floor_plan", "ground_floor_plan"))

GroundFloor(q, lang_data, r) ==
    IF ContainsAny(q, ground_query_keywords) /\ "ground_floor_plan" \in DOMAIN lang_data
    THEN LET plan == lang_data["ground_floor_plan"]
             r1 == Merge(Merge(r, "ground_floor_summary", SubOr(plan, "summary", "")),
                         "ground_floor_overview", SubOr(plan, "site_overview", EmptyDict))
             r2 == IF Contains(q, "block a") \/ ContainsAny(q, block_a_keywords)
                   THEN Merge(r1, "block_a_zone", Literal("block_a_zone")) ELSE r1
             r3 == IF Contains(q, "block b") \/ ContainsAny(q, block_b_keywords)
                   THEN Merge(r2, "block_b_zone", Literal("block_b_zone")) ELSE r2
         IN  IF ContainsAny(q, central_keywords)
             THEN Merge(r3, "central_amenities", Literal("central_amenities")) ELSE r3
    ELSE r

\* lang_data[plan]['overview'], ['special_features'], ['area_breakdown']
PlanDetails(lang_data, r, key, plan) ==
    IF {"overview", "special_features", "area_breakdown"} \subseteq lang_data[plan].keys
    THEN Merge(r, key, Built(key, <<Sub(lang_data[plan], "overview"),
                                    Sub(lang_data[plan], "special_features"),
                                    Sub(lang_data[plan], "area_breakdown")>>))
    ELSE KeyError(r)

\* the sizes and prices of the configs of type 3BHK and 4BHK (each config
\* holding its type, sizes and price), '' where the list has no such config
UnitDetails(configs) ==
    Built("unit_details", <<SubOr(configs, "3BHK", ""), SubOr(configs, "4BHK", "")>>)

WantsPlan(q, flat_a, flat_b) ==
    Contains(q, flat_a) \/ Contains(q, flat_b) \/ Contains(q, "carpet")

UnitConfigurations(q, lang_data, r) ==
    IF ~ContainsAny(q, unit_keywords) THEN r
    ELSE LET r1 == IF "unit_configurations" \in DOMAIN lang_data
                   THEN Merge(r, "unit_details", UnitDetails(lang_data["unit_configurations"]))
                   ELSE r
             r2 == IF "3bhk_unit_plan" \in DOMAIN lang_data /\ WantsPlan(q, "3bhk", "3 bhk")
                   THEN PlanDetails(lang_data, r1, "3bhk_details", "3bhk_unit_plan") ELSE r1
             r3 == IF r2.raised THEN r2
                   ELSE IF "4bhk_unit_plan" \in DOMAIN lang_data /\ WantsPlan(q, "4bhk", "4 bhk")
                   THEN PlanDetails(lang_data, r2, "4bhk_details", "4bhk_unit_plan") ELSE r2
         IN  IF r3.raised THEN r3 ELSE MergeSection(r3, lang_data, "pricing", "pricing")

Rooms(q, lang_data, r) ==
    IF ContainsAny(q, room_keywords)
    THEN MergeSection(MergeSection(r, lang_data, "3bhk_unit_plan", "3bhk_unit_plan"),
                      lang_data, "4bhk_unit_plan", "4bhk_unit_plan")
    ELSE r

\* a keyword list that guards the merge of one section
Topic(q, lang_data, r, keywords, key, name) ==
    IF ContainsAny(q, keywords) THEN MergeSection(r, lang_data, key, name) ELSE r

\* lang_data['ground_floor_plan']['block_a_zone'].get('lift_lobby', {}) and
\* the same of block_b_zone
Lifts(q, lang_data, r) ==
    IF ~ContainsAny(q, lift_keywords) THEN r
    ELSE LET r1 == MergeElevator(lang_data, r)
         IN  IF "ground_floor_plan" \notin DOMAIN lang_data THEN r1
             ELSE IF {"block_a_zone", "block_b_zone"} \subseteq lang_data["ground_floor_plan"].keys
             THEN Merge(r1, "elevators_detail",
                        Built("elevators_detail",
                              <<Sub(lang_data["ground_floor_plan"], "block_a_zone.lift_lobby"),
                                Sub(lang_data["ground_floor_plan"], "block_b_zone.lift_lobby")>>))
             ELSE KeyError(r1)

\* the topic checks after the unit configurations, in their order
LaterTopics(q, lang_data, r) ==
    LET r1 == Rooms(q, lang_data, r)
        r2 == Topic(q, lang_data, r1, elevator_keywords, "elevator", "elevator")
        r3 == Topic(q, lang_data, r2, parking_keywords, "parking", "parking")
        r4 == Topic(q, lang_data, r3, specification_keywords, "specifications", "specifications")
        r5 == Lifts(q, lang_data, r4)
    IN  IF r5.raised THEN r5
        ELSE LET r6 == Topic(q, lang_data, r5, car_keywords, "parking", "parking")
                 r7 == Topic(q, lang_data, r6, construction_keywords, "specifications",
                             "construction_specifications")
                 r8 == Topic(q, lang_data, r7, amenity_keywords, "amenities", "amenities")
                 r9 == Topic(q, lang_data, r8, location_keywords, "location_details",
                             "location_details")
                 r10 == Topic(q, lang_data, r9, possession_keywords, "possession_details",
                              "possession_details")
             IN  Topic(q, lang_data, r10, developer_keywords, "developer_portfolio",
                       "developer_portfolio")

\* relevant_data after all topic checks, before the test of its size
TopicChecks(q, lang_data) ==
    LET r == UnitConfigurations(q, lang_data,
                 GroundFloor(q, lang_data,
                     FacilityAndFlat(q, lang_data, ProjectInfo(lang_data, Started))))
    IN  IF r.raised THEN r ELSE LaterTopics(q, lang_data, r)

\* for section in fallback_sections from index k: merged if in lang_data
RECURSIVE MergeFallback(_, _, _)
MergeFallback(lang_data, r, k) ==
    IF k > Len(fallback_sections) THEN r
    ELSE MergeFallback(lang_data,
                       MergeSection(r, lang_data, fallback_sections[k], fallback_sections[k]),
                       k + 1)

\* Broaden for a result of at most one entry
Broaden_SingleEntry(lang_data, r) ==
    IF ~r.raised /\ Cardinality(DOMAIN r.data) <= 1 THEN MergeFallback(lang_data, r, 1) ELSE r

\* if len(relevant_data) <= 2: the fallback sections are merged
Broaden(lang_data, r) ==
    IF ~r.raised /\ Cardinality(DOMAIN r.data) <= 2 THEN MergeFallback(lang_data, r, 1) ELSE r

\* faq_data.get(language, faq_data.get('english', {}))
lang_data_of(faq_data, language) == GetOr(faq_data, language, GetOr(faq_data, "english", EmptyDict))

\* the result [data, raised]
extract_relevant_data(user_question, faq_data, language) ==
    Broaden(lang_data_of(faq_data, language),
            TopicChecks(Lower(user_question), lang_data_of(faq_data, language)))

(***************************************************************************)
(* create_gemini_prompt (its conversation context) and call_gemini_api.    *)
(***************************************************************************)
\* recent_history keeping the last five entries
recent_history_LastFive(chat_history) ==
    IF Len(chat_history) > 5
    THEN SubSeq(chat_history, Len(chat_history) - 4, Len(chat_history))
    ELSE chat_history

\* chat_history[-4:] if len(chat_history) > 4 else chat_history
recent_history(chat_history) ==
    IF Len(chat_history) > 4
    THEN SubSeq(chat_history, Len(chat_history) - 3, Len(chat_history))
    ELSE chat_history

create_gemini_prompt(user_question, language, chat_history) ==
    [user_question |-> user_question,
     language |-> language,
     context |-> [k \in 1..Len(recent_history(chat_history)) |->
                    <<IF recent_history(chat_history)[k][2] THEN "User" ELSE "Bot",
                      recent_history(chat_history)[k][1]>>]]

\* one requests.post: a usable 200 body, a non-200 status or a body without
\* candidates, or an exception
AttemptResults == {"ok", "bad_response", "exception"}

\* what the loop did, in order: a requests.post with its result, or a
\* time.sleep with its seconds
PostEvent(result) == [ev |-> "post", arg |-> result]

SleepEvent == [ev |-> "sleep", arg |-> "2"]

\* GeminiLoop retrying at once, without time.sleep(2)
RECURSIVE GeminiLoop_NoDelay(_, _, _)
GeminiLoop_NoDelay(attempt, slept, log) ==
    IF attempt >= 2
    THEN {[text |-> GEMINI_FALLBACK, attempts |-> attempt, sleeps |-> slept, log |-> log]}
    ELSE UNION {IF r = "ok"
                THEN {[text |-> t, attempts |-> attempt + 1, sleeps |-> slept,
                       log |-> Append(log, PostEvent(r))]
                      : t \in GeminiAnswers}
                ELSE GeminiLoop_NoDelay(attempt + 1, slept, Append(log, PostEvent(r)))
                : r \in AttemptResults}

\* the loop  for attempt in range(2)  from `attempt` on, after `slept` sleeps
\* and the events of `log`: the results [text, attempts, sleeps, log]
RECURSIVE GeminiLoop(_, _, _)
GeminiLoop(attempt, slept, log) ==
    IF attempt >= 2
    THEN {[text |-> GEMINI_FALLBACK, attempts |-> attempt, sleeps |-> slept, log |-> log]}
    ELSE LET nowSlept == IF attempt > 0 THEN slept + 1 ELSE slept
             nowLog   == IF attempt > 0 THEN Append(log, SleepEvent) ELSE log
         IN  UNION {IF r = "ok"
                    THEN {[text |-> t, attempts |-> attempt + 1, sleeps |-> nowSlept,
                           log |-> Append(nowLog, PostEvent(r))]
                          : t \in GeminiAnswers}
                    ELSE GeminiLoop(attempt + 1, nowSlept, Append(nowLog, PostEvent(r)))
                    : r \in AttemptResults}

call_gemini_api ==
    IF GEMINI_API_KEY = ""
    THEN {[text |-> GEMINI_NOT_CONFIGURED, attempts |-> 0, sleeps |-> 0, log |-> <<>>]}
    ELSE GeminiLoop(0, 0, <<>>)

\* the number of requests.post of the log that gave no usable answer
FailedAttempts(log) ==
    Cardinality({k \in 1..Len(log) : log[k].ev = "post" /\ log[k].arg # "ok"})

GeminiCall(prompt, r) ==
    [op |-> "call_gemini_api", prompt |-> prompt, attempts |-> r.attempts, sleeps |-> r.sleeps,
     failures |-> FailedAttempts(r.log), text |-> r.text]

(***************************************************************************)
(* process_incoming_message: the conditions of its branches.               *)
(***************************************************************************)
InPhoneCapture(state) == state.lead_capture_mode = "phone_for_brochure"

IsBrochureRequest(user_lower) == ContainsAny(user_lower, brochure_keywords)

AskedAboutBrochure(state) == state.asked_about_brochure

IsAffirmative(user_lower) == ContainsAny(user_lower, affirmative_patterns)

IsContactRequest(user_lower) == ContainsAny(user_lower, contact_patterns)

IsBookingRequest(user_lower) ==
    ContainsAny(user_lower, booking_keywords_english \o booking_keywords_gujarati)

InBooking(state) == state.lead_capture_mode = "booking"

current_step(state) == GetOr(state.booking_info, "current_step", None)

(***************************************************************************)
(* process_incoming_message: the bodies of its branches.  Each gives the   *)
(* set of outcomes [conv, reply, raised, calls] of the turn.               *)
(***************************************************************************)
HandlePhoneForBrochure(conv, from_phone, message_text, state) ==
    IF phone_match(message_text)
    THEN SendBrochure(conv, from_phone,
                      [state EXCEPT !.user_phone = phone_number(message_text),
                                    !.lead_capture_mode = None],
                      phone_number(message_text), REPLY_PHONE_SEND_FAILED)
    ELSE {Returns(conv, from_phone, state, REPLY_PHONE_INVALID, <<>>)}

\* HandleBrochureRequest without  state['asked_about_brochure'] = True
HandleBrochureRequest_FlagNotSet(conv, from_phone, state) ==
    SendBrochure(conv, from_phone, state, from_phone, REPLY_BROCHURE_SEND_FAILED)

HandleBrochureRequest(conv, from_phone, state) ==
    SendBrochure(conv, from_phone, [state EXCEPT !.asked_about_brochure = TRUE],
                 from_phone, REPLY_BROCHURE_SEND_FAILED)

HandleAffirmative(conv, from_phone, state) ==
    SendBrochure(conv, from_phone, state, from_phone, REPLY_CONFIRMED_SEND_FAILED)

HandleContactRequest(conv, from_phone, state) ==
    {Returns(conv, from_phone, state, REPLY_CONTACT, <<>>)}

\* HandleBookingRequest entering the step-by-step capture
HandleBookingRequest_StartsCapture(conv, from_phone, state) ==
    {Returns(conv, from_phone,
             [state EXCEPT !.lead_capture_mode = "booking",
                           !.booking_info = [current_step |-> "name"]],
             IF state.language = "gujarati" THEN REPLY_BOOKING_FORM_GUJARATI
                                            ELSE REPLY_BOOKING_FORM_ENGLISH,
             <<>>)}

HandleBookingRequest(conv, from_phone, state) ==
    {Returns(conv, from_phone, state,
             IF state.language = "gujarati" THEN REPLY_BOOKING_FORM_GUJARATI
                                            ELSE REPLY_BOOKING_FORM_ENGLISH,
             <<>>)}

\* booking_info[key] = value; booking_info['current_step'] = step
Fill(state, key, value, step) ==
    [state EXCEPT !.booking_info = Put(Put(@, key, value), "current_step", step)]

StepName(conv, from_phone, message_text, state) ==
    {Returns(conv, from_phone, Fill(state, "name", message_text, "confirm_phone"),
             REPLY_ASK_CONFIRM_PHONE(message_text, from_phone), <<>>)}

StepConfirmPhone(conv, from_phone, message_text, user_lower, state) ==
    IF user_lower = "yes" \/ user_lower = "1"
    THEN \* phone = booking_info['phone']: a KeyError when the key is absent
         IF "phone" \in DOMAIN state.booking_info
         THEN {Returns(conv, from_phone,
                       Fill(state, "phone", state.booking_info["phone"], "date"),
                       REPLY_ASK_DATE, <<>>)}
         ELSE {Raises(conv, from_phone, state, <<>>)}
    ELSE IF phone_match(message_text)
         THEN {Returns(conv, from_phone,
                       Fill(state, "phone", phone_number(message_text), "date"),
                       REPLY_ASK_DATE, <<>>)}
         ELSE {Returns(conv, from_phone, state, REPLY_CONFIRM_PHONE_INVALID, <<>>)}

\* StepDate with the next step written as 'unit_type'
StepDate_SkipsTime(conv, from_phone, message_text, state) ==
    IF ~date_match(message_text)
    THEN {Returns(conv, from_phone, state, REPLY_DATE_INVALID, <<>>)}
    ELSE {Returns(conv, from_phone, Fill(state, "date", message_text, "unit_type"),
                  REPLY_ASK_TIME, <<>>)}

StepDate(conv, from_phone, message_text, state) ==
    IF ~date_match(message_text)
    THEN {Returns(conv, from_phone, state, REPLY_DATE_INVALID, <<>>)}
    ELSE {Returns(conv, from_phone, Fill(state, "date", message_text, "time"),
                  REPLY_ASK_TIME, <<>>)}

StepTime(conv, from_phone, message_text, state) ==
    {Returns(conv, from_phone,
             Fill(state, "time",
                  IF message_text \in DOMAIN time_slots THEN time_slots[message_text]
                                                        ELSE message_text,
                  "unit_type"),
             REPLY_ASK_UNIT_TYPE, <<>>)}

StepUnitType(conv, from_phone, message_text, state) ==
    IF message_text \notin {"1", "2", "3"}
    THEN {Returns(conv, from_phone, state, REPLY_UNIT_TYPE_INVALID, <<>>)}
    ELSE {Returns(conv, from_phone,
                  Fill(state, "unit_type", unit_types[message_text], "budget"),
                  REPLY_ASK_BUDGET, <<>>)}

StepBudget(conv, from_phone, message_text, state) ==
    IF extract_budget_from_text(message_text) = None
    THEN {Returns(conv, from_phone, state, REPLY_BUDGET_INVALID, <<>>)}
    ELSE {Returns(conv, from_phone,
                  [state EXCEPT !.booking_info =
                                    Put(@, "budget", extract_budget_from_text(message_text)),
                                !.lead_capture_mode = None,
                                !.asked_about_brochure = TRUE],
                  REPLY_BOOKING_COMPLETE, <<>>)}

\* HandleDefault returning the fallback text without recording it
HandleDefault_FallbackNotRecorded(conv, from_phone, message_text, state) ==
    LET prompt == create_gemini_prompt(message_text, state.language, state.chat_history)
    IN  {IF r.text = GEMINI_FALLBACK
         THEN Returns_NoAppend(conv, from_phone, state, r.text, <<GeminiCall(prompt, r)>>)
         ELSE Returns(conv, from_phone, state, r.text, <<GeminiCall(prompt, r)>>)
         : r \in call_gemini_api}

\* the default branch: the Gemini answer is appended and returned
HandleDefault(conv, from_phone, message_text, state) ==
    LET prompt == create_gemini_prompt(message_text, state.language, state.chat_history)
    IN  {Returns(conv, from_phone, state, r.text, <<GeminiCall(prompt, r)>>)
         : r \in call_gemini_api}

\* the if/elif chain on current_step; a step outside the chain falls through
\* to the default branch
HandleStep(step, conv, from_phone, message_text, user_lower, state) ==
    CASE step = "name" -> StepName(conv, from_phone, message_text, state)
      [] step = "confirm_phone" ->
             StepConfirmPhone(conv, from_phone, message_text, user_lower, state)
      [] step = "date" -> StepDate(conv, from_phone, message_text, state)
      [] step = "time" -> StepTime(conv, from_phone, message_text, state)
      [] step = "unit_type" -> StepUnitType(conv, from_phone, message_text, state)
      [] step = "budget" -> StepBudget(conv, from_phone, message_text, state)
      [] OTHER -> HandleDefault(conv, from_phone, message_text, state)

\* current_step = booking_info.get('current_step'), then the chain on it
HandleBookingStep(conv, from_phone, message_text, user_lower, state) ==
    HandleStep(current_step(state), conv, from_phone, message_text, user_lower, state)

(***************************************************************************)
(* process_incoming_message                                                *)
(***************************************************************************)
\* RouteAfterConfirmation with the booking steps tried before the contact
\* and booking-keyword checks
RouteAfterConfirmation_BookingStepFirst(conv, from_phone, message_text, user_lower, state) ==
    IF InBooking(state)
    THEN HandleBookingStep(conv, from_phone, message_text, user_lower, state)
    ELSE IF IsContactRequest(user_lower) THEN HandleContactRequest(conv, from_phone, state)
    ELSE IF IsBookingRequest(user_lower) THEN HandleBookingRequest(conv, from_phone, state)
    ELSE HandleDefault(conv, from_phone, message_text, state)

\* the checks after the brochure-confirmation block, in their order
RouteAfterConfirmation(conv, from_phone, message_text, user_lower, state) ==
    IF IsContactRequest(user_lower) THEN HandleContactRequest(conv, from_phone, state)
    ELSE IF IsBookingRequest(user_lower) THEN HandleBookingRequest(conv, from_phone, state)
    ELSE IF InBooking(state)
         THEN HandleBookingStep(conv, from_phone, message_text, user_lower, state)
    ELSE HandleDefault(conv, from_phone, message_text, state)

\* RouteConfirmation with the flag cleared only when the brochure is sent
RouteConfirmation_FlagKept(conv, from_phone, message_text, user_lower, state) ==
    IF AskedAboutBrochure(state) /\ IsAffirmative(user_lower)
    THEN HandleAffirmative(conv, from_phone, [state EXCEPT !.asked_about_brochure = FALSE])
    ELSE RouteAfterConfirmation(conv, from_phone, message_text, user_lower, state)

\* if state.get('asked_about_brochure'): the flag is cleared, and an
\* affirmative text sends the brochure; any other text goes on
RouteConfirmation(conv, from_phone, message_text, user_lower, state) ==
    IF AskedAboutBrochure(state)
    THEN IF IsAffirmative(user_lower)
         THEN HandleAffirmative(conv, from_phone,
                                [state EXCEPT !.asked_about_brochure = FALSE])
         ELSE RouteAfterConfirmation(conv, from_phone, message_text, user_lower,
                                     [state EXCEPT !.asked_about_brochure = FALSE])
    ELSE RouteAfterConfirmation(conv, from_phone, message_text, user_lower, state)

\* Route with the booking-keyword check moved before the brochure check
Route_BookingKeywordFirst(conv, from_phone, message_text, user_lower, state) ==
    IF InPhoneCapture(state)
    THEN HandlePhoneForBrochure(conv, from_phone, message_text, state)
    ELSE IF IsBookingRequest(user_lower)
    THEN HandleBookingRequest(conv, from_phone, state)
    ELSE IF IsBrochureRequest(user_lower)
    THEN HandleBrochureRequest(conv, from_phone, state)
    ELSE RouteConfirmation(conv, from_phone, message_text, user_lower, state)

Route(conv, from_phone, message_text, user_lower, state) ==
    IF InPhoneCapture(state)
    THEN HandlePhoneForBrochure(conv, from_phone, message_text, state)
    ELSE IF IsBrochureRequest(user_lower)
    THEN HandleBrochureRequest(conv, from_phone, state)
    ELSE RouteConfirmation(conv, from_phone, message_text, user_lower, state)

\* Entered with the language set on first contact only
Entered_LanguageKept(conv, from_phone, message_text) ==
    LET state == IF from_phone \in DOMAIN conv THEN conv[from_phone]
                 ELSE [NewState(from_phone) EXCEPT !.language = detect_language(message_text)]
    IN  [state EXCEPT !.chat_history = Append(@, <<message_text, TRUE>>)]

\* the state after the get-or-create, the language update and the append of
\* the inbound message
Entered(conv, from_phone, message_text) ==
    LET state == IF from_phone \in DOMAIN conv THEN conv[from_phone] ELSE NewState(from_phone)
    IN  [state EXCEPT !.language = detect_language(message_text),
                      !.chat_history = Append(@, <<message_text, TRUE>>)]

\* process_incoming_message storing a new state dict on every turn
process_incoming_message_Recreates(conv, from_phone, message_text) ==
    Route(conv, from_phone, message_text, Strip(Lower(message_text)),
          Entered(EmptyDict, from_phone, message_text))

process_incoming_message(conv, from_phone, message_text) ==
    Route(conv, from_phone, message_text, Strip(Lower(message_text)),
          Entered(conv, from_phone, message_text))

(***************************************************************************)
(* webhook (POST)                                                          *)
(***************************************************************************)
\* message_text_of reading the button reply only
message_text_of_NoListReply(message) ==
    LET msg_type == GetOr(message, "type", None)
    IN  IF msg_type = "text" THEN GetOr(GetOr(message, "text", EmptyDict), "body", "")
        ELSE IF msg_type = "button"
        THEN GetOr(GetOr(message, "button", EmptyDict), "text", "")
        ELSE IF msg_type = "interactive"
        THEN LET interactive == GetOr(message, "interactive", EmptyDict)
             IN  IF "button_reply" \in DOMAIN interactive
                 THEN GetOr(interactive["button_reply"], "title", "")
                 ELSE ""
        ELSE ""

\* the text of a message: by its type, the text body, the button text, or
\* the title of the button reply or else of the list reply
message_text_of(message) ==
    LET msg_type == GetOr(message, "type", None)
    IN  IF msg_type = "text" THEN GetOr(GetOr(message, "text", EmptyDict), "body", "")
        ELSE IF msg_type = "button"
        THEN GetOr(GetOr(message, "button", EmptyDict), "text", "")
        ELSE IF msg_type = "interactive"
        THEN LET interactive == GetOr(message, "interactive", EmptyDict)
             IN  IF "button_reply" \in DOMAIN interactive
                 THEN GetOr(interactive["button_reply"], "title", "")
                 ELSE IF "list_reply" \in DOMAIN interactive
                 THEN GetOr(interactive["list_reply"], "title", "")
                 ELSE ""
        ELSE ""

MarkReadCall(message_id) == [op |-> "mark_message_as_read", message_id |-> message_id]

\* send_whatsapp_text(from_phone, response_text); its result is not used
TextCall(to_phone, body) == [op |-> "send_whatsapp_text", to |-> to_phone, body |-> body]

\* SkippedTurn with the message marked read before the test of its text
SkippedTurn_MarkedRead(conv, message) ==
    [message |-> message, skipped |-> TRUE, from |-> GetOr(message, "from", None),
     text |-> "", before |-> conv, after |-> conv, reply |-> None, raised |-> FALSE,
     calls |-> <<MarkReadCall(GetOr(message, "id", None))>>]

\* what the loop body did for one message
SkippedTurn(conv, message) ==
    [message |-> message, skipped |-> TRUE, from |-> GetOr(message, "from", None),
     text |-> "", before |-> conv, after |-> conv, reply |-> None, raised |-> FALSE,
     calls |-> <<>>]

ProcessedTurn(conv, message, o) ==
    [message |-> message, skipped |-> FALSE, from |-> GetOr(message, "from", None),
     text |-> message_text_of(message), before |-> conv, after |-> o.conv,
     reply |-> o.reply, raised |-> o.raised,
     calls |-> <<MarkReadCall(GetOr(message, "id", None))>> \o o.calls
                  \o (IF o.raised THEN <<>>
                      ELSE <<TextCall(GetOr(message, "from", None), o.reply)>>)]

\* the loop over the messages of a delivery from index i on: a message
\* without text is skipped; an exception leaves the loop (the except clause
\* around it logs it); the results are [conv, turns, raised]
RECURSIVE RunMessages(_, _, _, _)
RunMessages(conv, messages, i, turns) ==
    IF i > Len(messages) THEN {[conv |-> conv, turns |-> turns, raised |-> FALSE]}
    ELSE IF message_text_of(messages[i]) = ""
    THEN RunMessages(conv, messages, i + 1, Append(turns, SkippedTurn(conv, messages[i])))
    ELSE UNION {IF o.raised
                THEN {[conv |-> o.conv,
                       turns |-> Append(turns, ProcessedTurn(conv, messages[i], o)),
                       raised |-> TRUE]}
                ELSE RunMessages(o.conv, messages, i + 1,
                                 Append(turns, ProcessedTurn(conv, messages[i], o)))
                : o \in process_incoming_message(conv, GetOr(messages[i], "from", None),
                                                 message_text_of(messages[i]))}

(***************************************************************************)
(* The senders and messages of the model.                                  *)
(***************************************************************************)
Phone1 == "919876500001"

Phone2 == "919876500002"

\* the texts users send in the model
Texts == {"can you send the brochure", "site visit brochure", "yes", "no thanks",
          "talk to agent", "book site visit", "schedule visit", "Asha", "9876543210",
          "05/11/2025", "1", "7", "1.5 cr", "કેમ છો"}

\* the texts of the two-sender specification
CoreTexts == {"can you send the brochure", "yes", "no thanks", "talk to agent",
              "book site visit", "કેમ છો"}

TextMessage(from_phone, body) ==
    [from |-> from_phone, id |-> "wamid.text", type |-> "text", text |-> [body |-> body]]

ImageMessage(from_phone) == [from |-> from_phone, id |-> "wamid.image", type |-> "image"]

ButtonReplyMessage(from_phone, title) ==
    [from |-> from_phone, id |-> "wamid.reply", type |-> "interactive",
     interactive |-> [type |-> "button_reply", button_reply |-> [id |-> "b1", title |-> title]]]

MessagesFrom(senders, texts) ==
    {TextMessage(p, t) : p \in senders, t \in texts} \cup {ImageMessage(p) : p \in senders}

\* the deliveries of n messages
Deliveries(messages, n) == [1..n -> messages]

\* the sizes of delivery the bounds still allow
BatchSizes == {n \in 1..MaxBatch : delivered + n <= MaxTurns}

(***************************************************************************)
(* The state machine.                                                      *)
(***************************************************************************)
NoDelivery == [messages |-> <<>>, turns |-> <<>>, raised |-> FALSE, status |-> None]

\* no function was called on its own
NoCall == [fn |-> None]

\* no turns run side by side
NotRunning == [start |-> EmptyDict, threads |-> <<>>]

\* the process starts with an empty store
Init == /\ CONV_STATE = EmptyDict
        /\ last = NoDelivery
        /\ delivered = 0
        /\ call = NoCall
        /\ sheet = <<>>
        /\ polls = <<>>
        /\ running = NotRunning

\* webhook_status with the exception of the loop leaving the view function,
\* which the framework answers with 500
webhook_status_Propagates(raised) == IF raised THEN 500 ELSE 200

\* the status of the response: the except clause after the loops logs the
\* exception and falls through to  return jsonify({'status': 'ok'}), 200
webhook_status(raised) == IF raised THEN 200 ELSE 200

\* one POST /webhook: every message of the delivery in order, then the
\* response
Webhook(messages) ==
    /\ delivered + Len(messages) <= MaxTurns
    /\ \E r \in RunMessages(CONV_STATE, messages, 1, <<>>) :
          /\ CONV_STATE' = r.conv
          /\ last' = [messages |-> messages, turns |-> r.turns, raised |-> r.raised,
                      status |-> webhook_status(r.raised)]
    /\ delivered' = delivered + Len(messages)
    /\ UNCHANGED <<call, sheet, polls, running>>

SpecMessages ==
    MessagesFrom({Phone1, Phone2}, CoreTexts) \cup {ButtonReplyMessage(Phone1, "Yes")}

Next == \E n \in BatchSizes : \E messages \in Deliveries(SpecMessages, n) : Webhook(messages)

Spec == Init /\ [][Next]_vars

(***************************************************************************)
(* The same machine started in a capture mode.  No statement of the source *)
(* sets lead_capture_mode, so the store is seeded with one conversation    *)
(* that is in phone capture, in a fresh booking (current_step = 'name',    *)
(* nothing else in booking_info), or in a booking after the first k        *)
(* inputs of BookingScript were processed by process_incoming_message.     *)
(***************************************************************************)
PhoneCaptureState == [NewState(Phone1) EXCEPT !.lead_capture_mode = "phone_for_brochure"]

FreshBookingState ==
    [NewState(Phone1) EXCEPT !.lead_capture_mode = "booking",
                             !.booking_info = [current_step |-> "name"]]

BookingScript == <<"Asha", "9876543210", "05/11/2025", "2", "1">>

RECURSIVE BookingAfter(_)
BookingAfter(k) ==
    IF k = 0 THEN Put(EmptyDict, Phone1, FreshBookingState)
    ELSE (CHOOSE o \in process_incoming_message(BookingAfter(k - 1), Phone1, BookingScript[k])
              : TRUE).conv

InitCapture ==
    /\ CONV_STATE \in {EmptyDict, Put(EmptyDict, Phone1, PhoneCaptureState)}
                         \cup {BookingAfter(k) : k \in 0..Len(BookingScript)}
    /\ last = NoDelivery
    /\ delivered = 0
    /\ call = NoCall
    /\ sheet = <<>>
    /\ polls = <<>>
    /\ running = NotRunning

CaptureMessages == MessagesFrom({Phone1}, Texts)

NextCapture == \E n \in BatchSizes : \E messages \in Deliveries(CaptureMessages, n) : Webhook(messages)

SpecCapture == InitCapture /\ [][NextCapture]_vars

(***************************************************************************)
(* The machine started with one conversation in phone capture, receiving   *)
(* texts with and without a mobile number.                                 *)
(***************************************************************************)
\* the texts of the phone-capture specification
PhoneTexts == {"9876543210", "+91 9876543210", "+919876543210", "my number is 98765",
               "yes", "can you send the brochure"}

InitPhone ==
    /\ CONV_STATE = Put(EmptyDict, Phone1, PhoneCaptureState)
    /\ last = NoDelivery
    /\ delivered = 0
    /\ call = NoCall
    /\ sheet = <<>>
    /\ polls = <<>>
    /\ running = NotRunning

PhoneMessages == MessagesFrom({Phone1}, PhoneTexts)

NextPhone == \E n \in BatchSizes : \E messages \in Deliveries(PhoneMessages, n) : Webhook(messages)

SpecPhone == InitPhone /\ [][NextPhone]_vars

(***************************************************************************)
(* The machine with one sender whose texts carry handoff and booking       *)
(* words, started with an empty store or inside a booking.                 *)
(***************************************************************************)
\* the texts of the keyword specification
KeywordTexts == {"talk to agent", "is an agent available", "whatsapp number please",
                 "book site visit", "site visit માટે", "can you send the brochure",
                 "yes", "no thanks", "કેમ છો"}

InitKeywords ==
    /\ CONV_STATE \in {EmptyDict, BookingAfter(0), BookingAfter(2)}
    /\ last = NoDelivery
    /\ delivered = 0
    /\ call = NoCall
    /\ sheet = <<>>
    /\ polls = <<>>
    /\ running = NotRunning

KeywordMessages == MessagesFrom({Phone1}, KeywordTexts)

NextKeywords ==
    \E n \in BatchSizes : \E messages \in Deliveries(KeywordMessages, n) : Webhook(messages)

SpecKeywords == InitKeywords /\ [][NextKeywords]_vars

(***************************************************************************)
(* call_gemini_api called on its own, with the prompts create_gemini_prompt *)
(* builds for a first message.                                             *)
(***************************************************************************)
Languages == {"english", "gujarati"}

GeminiPrompts ==
    {create_gemini_prompt(text, language, <<<<text, TRUE>>>>) : text \in Texts, language \in Languages}

CallGemini(prompt, language) ==
    /\ call = NoCall
    /\ \E r \in call_gemini_api :
          call' = [fn |-> "call_gemini_api", prompt |-> prompt, language |-> language,
                   result |-> r]
    /\ UNCHANGED <<CONV_STATE, last, delivered, sheet, polls, running>>

NextGemini == \E prompt \in GeminiPrompts : CallGemini(prompt, prompt.language)

SpecGemini == Init /\ [][NextGemini]_vars

(***************************************************************************)
(* detect_language called on its own, with every text of at most MaxChars  *)
(* characters over a letter, a space and a gujarati letter.                *)
(***************************************************************************)
RECURSIVE Join(_)
Join(parts) == IF parts = <<>> THEN "" ELSE Head(parts) \o Join(Tail(parts))

\* the texts of at most n parts taken from `parts`
TextsOver(parts, n) == {Join(seq) : seq \in UNION {[1..k -> parts] : k \in 0..n}}

DetectChars == {"a", " ", "ક"}

DetectLanguage(text) ==
    /\ call = NoCall
    /\ call' = [fn |-> "detect_language", text |-> text, result |-> detect_language(text)]
    /\ UNCHANGED <<CONV_STATE, last, delivered, sheet, polls, running>>

NextDetect == \E text \in TextsOver(DetectChars, MaxChars) : DetectLanguage(text)

SpecDetect == Init /\ [][NextDetect]_vars

(***************************************************************************)
(* extract_budget_from_text called on its own, with every text of at most  *)
(* MaxParts parts: amounts, units, and what may stand between them.        *)
(***************************************************************************)
BudgetParts == {"50 lakh", "1.5 cr", "1.5", "50", ".", " ", "cr", "lakhs", "Crores", "x"}

ExtractBudget(text) ==
    /\ call = NoCall
    /\ call' = [fn |-> "extract_budget_from_text", text |-> text,
                result |-> extract_budget_from_text(text)]
    /\ UNCHANGED <<CONV_STATE, last, delivered, sheet, polls, running>>

NextBudget == \E text \in TextsOver(BudgetParts, MaxParts) : ExtractBudget(text)

SpecBudget == Init /\ [][NextBudget]_vars

(***************************************************************************)
(* extract_relevant_data called on its own.  load_faq_data gives the store *)
(* a tree for each language, empty if its file did not load; the trees of  *)
(* the model hold all the sections the function reads, some, or none, each *)
(* section with the keys the function indexes.                             *)
(***************************************************************************)
SectionNames ==
    {"project_info", "3bhk_unit_plan", "4bhk_unit_plan", "pricing", "parking",
     "ground_floor_plan", "construction_specifications", "unit_configurations", "elevator",
     "specifications", "amenities", "location_details", "possession_details",
     "developer_portfolio"}

SectionKeys(name) ==
    CASE name = "ground_floor_plan" ->
             {"summary", "site_overview", "block_a_zone", "block_b_zone", "central_amenities"}
      [] name = "construction_specifications" -> {"elevator"}
      [] name \in {"3bhk_unit_plan", "4bhk_unit_plan"} ->
             {"overview", "special_features", "area_breakdown"}
      [] name = "pricing" -> {"box_price_2650", "box_price_3850"}
      [] name = "parking" -> {"3bhk_parking", "4bhk_parking"}
      [] name = "unit_configurations" -> {"3BHK", "4BHK"}
      [] OTHER -> {}

Tree(language, names) == [name \in names |-> Section(language, name, SectionKeys(name))]

\* the sections a tree of the model holds
TreeShapes == {SectionNames, SectionNames \ {"project_info"}, {}}

\* json.load into data['english'] and data['gujarati'], {} on failure
FaqStores ==
    {[english |-> Tree("english", e), gujarati |-> Tree("gujarati", g)]
     : e \in TreeShapes, g \in TreeShapes}

QuestionWords == {"price ", "location ", "possession ", "lift ", "hello "}

ExtractRelevant(user_question, faq_data, language) ==
    /\ call = NoCall
    /\ call' = [fn |-> "extract_relevant_data", user_question |-> user_question,
                faq_data |-> faq_data, language |-> language,
                checked |-> TopicChecks(Lower(user_question),
                                        lang_data_of(faq_data, language)),
                result |-> extract_relevant_data(user_question, faq_data, language)]
    /\ UNCHANGED <<CONV_STATE, last, delivered, sheet, polls, running>>

NextRelevant ==
    \E user_question \in TextsOver(QuestionWords, MaxWords) :
        \E faq_data \in FaqStores : \E language \in Languages :
            ExtractRelevant(user_question, faq_data, language)

SpecRelevant == Init /\ [][NextRelevant]_vars

(***************************************************************************)
(* The machine receiving messages of every shape the loop of webhook tells *)
(* apart: each type with its text source filled, empty or missing, an      *)
(* unsupported type, a text body without a type, and an interactive        *)
(* message whose button reply has an empty title beside a list reply.      *)
(***************************************************************************)
ButtonMessage(from_phone, text) ==
    [from |-> from_phone, id |-> "wamid.button", type |-> "button", button |-> [text |-> text]]

ListReplyMessage(from_phone, title) ==
    [from |-> from_phone, id |-> "wamid.list", type |-> "interactive",
     interactive |-> [type |-> "list_reply", list_reply |-> [id |-> "l1", title |-> title]]]

\* type 'text' without the text field
BareTextMessage(from_phone) == [from |-> from_phone, id |-> "wamid.bare", type |-> "text"]

\* type 'interactive' with neither reply
BareInteractiveMessage(from_phone) ==
    [from |-> from_phone, id |-> "wamid.flow", type |-> "interactive",
     interactive |-> [type |-> "nfm_reply"]]

\* a text body in a message without the type field
UntypedMessage(from_phone, body) ==
    [from |-> from_phone, id |-> "wamid.untyped", text |-> [body |-> body]]

\* an interactive message holding both replies, the button reply untitled
BothRepliesMessage(from_phone, title) ==
    [from |-> from_phone, id |-> "wamid.both", type |-> "interactive",
     interactive |-> [type |-> "list_reply", button_reply |-> [id |-> "b1", title |-> ""],
                      list_reply |-> [id |-> "l1", title |-> title]]]

ShapeMessages ==
    {TextMessage(Phone1, "talk to agent"), TextMessage(Phone2, "book site visit"),
     TextMessage(Phone1, ""), BareTextMessage(Phone1), ImageMessage(Phone2),
     ButtonMessage(Phone1, "book site visit"), ButtonReplyMessage(Phone1, "talk to agent"),
     ListReplyMessage(Phone2, "talk to agent"), ListReplyMessage(Phone1, ""),
     BareInteractiveMessage(Phone1), UntypedMessage(Phone2, "talk to agent"),
     BothRepliesMessage(Phone2, "book site visit")}

NextShapes == \E n \in BatchSizes : \E messages \in Deliveries(ShapeMessages, n) : Webhook(messages)

SpecShapes == Init /\ [][NextShapes]_vars

(***************************************************************************)
(* check_new_bookings.  The sheet is the sequence of its data rows: row k  *)
(* of the sequence is record k - 1 of get_all_records and row k + 1 of the *)
(* worksheet, whose first row is the header.  A row is the dict            *)
(* get_all_records gives for it.                                           *)
(***************************************************************************)
STATUS_CONFIRMED == "Confirmed"

STATUS_SEND_FAILED == "Pending - WhatsApp Failed"

\* re.sub(r'[^0-9+]', '', phone)
RECURSIVE KeepOnly(_, _)
KeepOnly(s, S) ==
    IF s = "" THEN ""
    ELSE (IF At(s, 1) \in S THEN SubSeq(s, 1, 1) ELSE "") \o KeepOnly(SubSeq(s, 2, Len(s)), S)

\* the phone of a record as it is sent to: stripped to digits and '+', and
\* prefixed with +91 when 10 characters without a leading '+' remain
format_phone(phone) ==
    IF phone = "" THEN ""
    ELSE LET stripped == KeepOnly(phone, Digits \cup {"+"})
         IN  IF Len(stripped) = 10 /\ At(stripped, 1) # "+" THEN "+91" \o stripped
             ELSE stripped

\* the confirmation text, by the values the f-string interpolates
confirmation_message(record) ==
    [name |-> record["Name"], date |-> record["Preferred Date"],
     time |-> record["Preferred Time"], unit |-> record["Unit Type"],
     budget |-> record["Budget"]]

\* all_records.index(record): the position of the first record equal to it
IndexOf(all_records, record) ==
    Min({k \in 1..Len(all_records) : all_records[k] = record}) - 1

\* sheet.update_cell(row_num, sheet.find('Status').col, value)
update_cell(rows, row_num, value) == [rows EXCEPT ![row_num - 1]["Status"] = value]

SendEvent(k, to_phone, record, success) ==
    [record |-> k, to |-> to_phone, message |-> confirmation_message(record), ok |-> success]

WriteEvent(row_num, value) == [row_num |-> row_num, value |-> value]

\* the run left the loop: `returned` is the value check_new_bookings returns
PollResult(rows, sends, writes, returned) ==
    [rows |-> rows, sends |-> sends, writes |-> writes, returned |-> returned]

\* the loop  for record in all_records  from record k on; `rows` is the
\* worksheet so far and row_num the local of that name, 0 while unbound.
\* A failed send reads row_num, which only the success branch assigns: an
\* UnboundLocalError when no send of this run succeeded before, which the
\* except clause of the function turns into  return False
RECURSIVE CheckRecords(_, _, _, _, _, _)
CheckRecords(all_records, k, rows, row_num, sends, writes) ==
    IF k > Len(all_records) THEN {PollResult(rows, sends, writes, TRUE)}
    ELSE LET record == all_records[k]
             phone  == format_phone(record["Phone"])
         IN  IF record["Status"] # ""
                \/ phone = "" \/ record["Name"] = ""
                \/ record["Preferred Date"] = "" \/ record["Preferred Time"] = ""
             THEN CheckRecords(all_records, k + 1, rows, row_num, sends, writes)
             ELSE UNION {
                    IF success
                    THEN LET here == IndexOf(all_records, record) + 2
                         IN  CheckRecords(all_records, k + 1,
                                          update_cell(rows, here, STATUS_CONFIRMED), here,
                                          Append(sends, SendEvent(k, phone, record, success)),
                                          Append(writes, WriteEvent(here, STATUS_CONFIRMED)))
                    ELSE IF row_num = 0
                    THEN {PollResult(rows, Append(sends, SendEvent(k, phone, record, success)),
                                     writes, FALSE)}
                    ELSE CheckRecords(all_records, k + 1,
                                      update_cell(rows, row_num, STATUS_SEND_FAILED), row_num,
                                      Append(sends, SendEvent(k, phone, record, success)),
                                      Append(writes, WriteEvent(row_num, STATUS_SEND_FAILED)))
                    : success \in SendResults}

\* the results of one run on the worksheet `rows`: no credentials or no
\* sheet (return False before any record is read), or the loop over the
\* records get_all_records returned
check_new_bookings(rows) ==
    {PollResult(rows, <<>>, <<>>, FALSE)} \cup CheckRecords(rows, 1, rows, 0, <<>>, <<>>)

\* a row as the booking form adds it: no status yet
FormRow(phone, name) ==
    ("Status" :> "") @@ ("Phone" :> phone) @@ ("Name" :> name)
        @@ ("Preferred Date" :> "05/11/2025") @@ ("Preferred Time" :> "10:00 AM")
        @@ ("Unit Type" :> "3 BHK") @@ ("Budget" :> "1.5 Cr")

\* the rows submitted in the model: two complete ones (submitting one twice
\* gives duplicate rows) and one without a name
FormRows == {FormRow("98765 43210", "Asha"), FormRow("+919876500002", "Ben"),
             FormRow("9876500003", "")}

\* a visitor submits the booking form: the sheet gets a new last row
SubmitForm(row) ==
    /\ Len(sheet) < MaxRows
    /\ sheet' = Append(sheet, row)
    /\ UNCHANGED <<CONV_STATE, last, delivered, call, polls, running>>

\* one pass of check_bookings_periodically: check_new_bookings runs on the
\* sheet as it is
CheckNewBookings ==
    /\ Len(polls) < MaxPolls
    /\ \E r \in check_new_bookings(sheet) :
          /\ sheet' = r.rows
          /\ polls' = Append(polls, [before |-> sheet, sends |-> r.sends, writes |-> r.writes,
                                     returned |-> r.returned])
    /\ UNCHANGED <<CONV_STATE, last, delivered, call, running>>

NextLedger == (\E row \in FormRows : SubmitForm(row)) \/ CheckNewBookings

SpecLedger == Init /\ [][NextLedger]_vars

(***************************************************************************)
(* Two turns of one sender run side by side.  The server handles each      *)
(* request in a thread of its own and process_incoming_message takes no    *)
(* lock, so the statements of two turns interleave.  A turn is cut where   *)
(* it reads what it later writes: after the entry (lines 646-664), after   *)
(* the read of asked_about_brochure (line 711) and after the read of       *)
(* current_step (line 801); the statements between two cuts run as one     *)
(* step.  Every behaviour of this machine is a schedule of the threads.    *)
(***************************************************************************)
Threads == {1, 2}

IdleThread ==
    [pc |-> "idle", text |-> "", flag |-> FALSE, step |-> None, calls |-> <<>>,
     reply |-> None, raised |-> FALSE]

\* the store after "can you send the brochure" was answered with the
\* document: a confirmation is pending
PendingConfirmation ==
    (CHOOSE o \in process_incoming_message(EmptyDict, Phone1, "can you send the brochure")
         : o.reply = None).conv

ConcurrentTexts == {"yes", "Ben"}

InitConcurrent ==
    /\ CONV_STATE \in {PendingConfirmation, BookingAfter(0)}
    /\ last = NoDelivery
    /\ delivered = 0
    /\ call = NoCall
    /\ sheet = <<>>
    /\ polls = <<>>
    /\ running = [start |-> CONV_STATE, threads |-> [i \in Threads |-> IdleThread]]

Thread(i) == running.threads[i]

\* the sender's state as the store holds it now
Shared == CONV_STATE[Phone1]

\* the thread goes on at pc with the fields of `changes` set
Goes(i, pc, changes) ==
    running' = [running EXCEPT
                   !.threads[i] = [f \in DOMAIN @ |->
                                      IF f = "pc" THEN pc
                                      ELSE IF f \in DOMAIN changes THEN changes[f] ELSE @[f]]]

\* the turn ends with the outcome o of the statements it still had to run
Finishes(i, o) ==
    /\ CONV_STATE' = o.conv
    /\ Goes(i, "done", [calls |-> o.calls, reply |-> o.reply, raised |-> o.raised])

\* lines 646-664: get or create the state, set the language, append the
\* inbound message
Enter(i, message_text) ==
    /\ Thread(i).pc = "idle"
    /\ CONV_STATE' = Put(CONV_STATE, Phone1, Entered(CONV_STATE, Phone1, message_text))
    /\ Goes(i, "entered", [text |-> message_text])
    /\ UNCHANGED <<last, delivered, call, sheet, polls>>

\* lines 666-711: the phone-capture and brochure branches run to their
\* return; otherwise asked_about_brochure is read
ReadFlag(i) ==
    /\ Thread(i).pc = "entered"
    /\ LET user_lower == Strip(Lower(Thread(i).text)) IN
       IF InPhoneCapture(Shared) \/ IsBrochureRequest(user_lower)
       THEN \E o \in Route(CONV_STATE, Phone1, Thread(i).text, user_lower, Shared) :
                Finishes(i, o)
       ELSE /\ Goes(i, "flag_read", [flag |-> AskedAboutBrochure(Shared)])
            /\ UNCHANGED CONV_STATE
    /\ UNCHANGED <<last, delivered, call, sheet, polls>>

\* ActOnFlag testing the flag again when it clears it
ActOnFlag_TestsAgain(i) ==
    /\ Thread(i).pc = "flag_read"
    /\ LET user_lower == Strip(Lower(Thread(i).text))
           cleared    == [Shared EXCEPT !.asked_about_brochure = FALSE]
       IN  IF Thread(i).flag /\ AskedAboutBrochure(Shared)
           THEN IF IsAffirmative(user_lower)
                THEN \E o \in HandleAffirmative(CONV_STATE, Phone1, cleared) : Finishes(i, o)
                ELSE /\ CONV_STATE' = Put(CONV_STATE, Phone1, cleared)
                     /\ Goes(i, "confirmation_done", <<>>)
           ELSE /\ Goes(i, "confirmation_done", <<>>)
                /\ UNCHANGED CONV_STATE
    /\ UNCHANGED <<last, delivered, call, sheet, polls>>

\* lines 712-725 on the flag the thread read: clear it, and on an
\* affirmative text send the document and return
ActOnFlag(i) ==
    /\ Thread(i).pc = "flag_read"
    /\ LET user_lower == Strip(Lower(Thread(i).text))
           cleared    == [Shared EXCEPT !.asked_about_brochure = FALSE]
       IN  IF Thread(i).flag
           THEN IF IsAffirmative(user_lower)
                THEN \E o \in HandleAffirmative(CONV_STATE, Phone1, cleared) : Finishes(i, o)
                ELSE /\ CONV_STATE' = Put(CONV_STATE, Phone1, cleared)
                     /\ Goes(i, "confirmation_done", <<>>)
           ELSE /\ Goes(i, "confirmation_done", <<>>)
                /\ UNCHANGED CONV_STATE
    /\ UNCHANGED <<last, delivered, call, sheet, polls>>

\* lines 727-801: the contact and booking-keyword branches and, outside a
\* booking, the default branch run to their return; in a booking
\* current_step is read
ReadStep(i) ==
    /\ Thread(i).pc = "confirmation_done"
    /\ LET user_lower == Strip(Lower(Thread(i).text)) IN
       IF IsContactRequest(user_lower) \/ IsBookingRequest(user_lower) \/ ~InBooking(Shared)
       THEN \E o \in RouteAfterConfirmation(CONV_STATE, Phone1, Thread(i).text, user_lower,
                                            Shared) :
                Finishes(i, o)
       ELSE /\ Goes(i, "step_read", [step |-> current_step(Shared)])
            /\ UNCHANGED CONV_STATE
    /\ UNCHANGED <<last, delivered, call, sheet, polls>>

\* lines 803-972: the branch of the step the thread read
ActOnStep(i) ==
    /\ Thread(i).pc = "step_read"
    /\ \E o \in HandleStep(Thread(i).step, CONV_STATE, Phone1, Thread(i).text,
                           Strip(Lower(Thread(i).text)), Shared) :
           Finishes(i, o)
    /\ UNCHANGED <<last, delivered, call, sheet, polls>>

NextConcurrent ==
    \E i \in Threads :
        \/ \E message_text \in ConcurrentTexts : Enter(i, message_text)
        \/ ReadFlag(i)
        \/ ActOnFlag(i)
        \/ ReadStep(i)
        \/ ActOnStep(i)

SpecConcurrent == InitConcurrent /\ [][NextConcurrent]_vars

(***************************************************************************)
(* One turn at a time, with the loop of call_gemini_api run step by step:  *)
(* each time.sleep and each requests.post is a step of its own that        *)
(* returns or fails.  `call` holds the locals of the loop.  The other      *)
(* branches have no loop and run as one step.  The store does not change   *)
(* while the one turn runs, so the outcomes the turn can have are worked   *)
(* out when it starts and kept in `call` until it returns.                 *)
(***************************************************************************)
TurnTexts == {"yes", "no thanks", "can you send the brochure", "talk to agent",
              "book site visit"}

InitTurn ==
    /\ CONV_STATE \in {EmptyDict, PendingConfirmation}
    /\ last = NoDelivery
    /\ delivered = 0
    /\ call = NoCall
    /\ sheet = <<>>
    /\ polls = <<>>
    /\ running = [start |-> CONV_STATE, threads |-> [i \in {1} |-> IdleThread]]

\* the turn reaches line 969
HasGeminiCall(o) == \E k \in 1..Len(o.calls) : o.calls[k].op = "call_gemini_api"

\* a branch with no loop is to run
BranchStarted(outcomes) == [fn |-> "process_incoming_message", outcomes |-> outcomes]

\* call_gemini_api before the first pass of its loop
LoopStarted(outcomes) ==
    [fn |-> "call_gemini_api", attempt |-> 0, slept |-> FALSE, sleeps |-> 0, failures |-> 0,
     text |-> None, outcomes |-> outcomes]

\* webhook hands a message to process_incoming_message
StartTurn(i, message_text) ==
    /\ Thread(i).pc \in {"idle", "done"}
    /\ delivered < MaxTurns
    /\ delivered' = delivered + 1
    /\ LET outcomes == process_incoming_message(CONV_STATE, Phone1, message_text)
           default  == \E o \in outcomes : HasGeminiCall(o)
       IN  /\ running' = [running EXCEPT
                             !.threads[i] = [IdleThread EXCEPT
                                                !.text = message_text,
                                                !.pc = IF default THEN "loop" ELSE "branch"]]
           /\ call' = IF default THEN LoopStarted(outcomes) ELSE BranchStarted(outcomes)
    /\ UNCHANGED <<CONV_STATE, last, sheet, polls>>

\* a branch before the default one runs to its return
RunBranch(i) ==
    /\ Thread(i).pc = "branch"
    /\ \E o \in call.outcomes : Finishes(i, o)
    /\ UNCHANGED <<last, delivered, call, sheet, polls>>

\* if attempt > 0: time.sleep(2)
LoopSleep(i) ==
    /\ Thread(i).pc = "loop"
    /\ call.attempt < 2 /\ call.attempt > 0 /\ ~call.slept
    /\ call' = [call EXCEPT !.slept = TRUE, !.sleeps = @ + 1]
    /\ UNCHANGED <<CONV_STATE, last, delivered, sheet, polls, running>>

\* LoopPost starting the loop over after a failed second attempt
LoopPost_StartsOver(i, result) ==
    /\ Thread(i).pc = "loop"
    /\ call.attempt < 2 /\ (call.attempt > 0 => call.slept)
    /\ IF result = "ok"
       THEN /\ \E answer \in GeminiAnswers :
                  call' = [call EXCEPT !.attempt = @ + 1, !.text = answer]
            /\ Goes(i, "answered", <<>>)
       ELSE /\ call' = IF call.attempt = 1 THEN LoopStarted(call.outcomes)
                       ELSE [call EXCEPT !.attempt = @ + 1, !.failures = @ + 1,
                                         !.slept = FALSE]
            /\ UNCHANGED running
    /\ UNCHANGED <<CONV_STATE, last, delivered, sheet, polls>>

\* one requests.post of the loop: a usable answer is returned; any other
\* response and any exception end this pass of  for attempt in range(2)
LoopPost(i, result) ==
    /\ Thread(i).pc = "loop"
    /\ call.attempt < 2 /\ (call.attempt > 0 => call.slept)
    /\ IF result = "ok"
       THEN /\ \E answer \in GeminiAnswers :
                  call' = [call EXCEPT !.attempt = @ + 1, !.text = answer]
            /\ Goes(i, "answered", <<>>)
       ELSE /\ call' = [call EXCEPT !.attempt = @ + 1, !.failures = @ + 1, !.slept = FALSE]
            /\ UNCHANGED running
    /\ UNCHANGED <<CONV_STATE, last, delivered, sheet, polls>>

\* range(2) is used up: the fallback text is returned
LoopExhausted(i) ==
    /\ Thread(i).pc = "loop"
    /\ call.attempt >= 2
    /\ call' = [call EXCEPT !.text = GEMINI_FALLBACK]
    /\ Goes(i, "answered", <<>>)
    /\ UNCHANGED <<CONV_STATE, last, delivered, sheet, polls>>

\* lines 971-972 with the text call_gemini_api returned
ReturnAnswer(i) ==
    /\ Thread(i).pc = "answered"
    /\ \E o \in call.outcomes :
          /\ \E k \in 1..Len(o.calls) :
                 /\ o.calls[k].op = "call_gemini_api"
                 /\ o.calls[k].text = call.text
                 /\ o.calls[k].attempts = call.attempt
                 /\ o.calls[k].sleeps = call.sleeps
                 /\ o.calls[k].failures = call.failures
          /\ Finishes(i, o)
    /\ UNCHANGED <<last, delivered, call, sheet, polls>>

\* the steps of a turn that was started
TurnStep ==
    \E i \in DOMAIN running.threads :
        \/ RunBranch(i)
        \/ LoopSleep(i)
        \/ \E result \in AttemptResults : LoopPost(i, result)
        \/ LoopExhausted(i)
        \/ ReturnAnswer(i)

NextTurn ==
    \/ \E i \in DOMAIN running.threads : \E message_text \in TurnTexts :
           StartTurn(i, message_text)
    \/ TurnStep

SpecTurn == InitTurn /\ [][NextTurn]_vars

\* a turn that was started keeps running, and every sleep and every post
\* comes back; no message has to arrive
SpecTurnFair == SpecTurn /\ WF_vars(TurnStep)

(***************************************************************************)
(* What the properties below read from the record of the last delivery.    *)
(***************************************************************************)
\* the turns process_incoming_message ran in the last delivery
ProcessedTurns == {last.turns[k] : k \in {j \in 1..Len(last.turns) : ~last.turns[j].skipped}}

\* the sender's conversation state when the turn began (that of a first
\* contact if the store had none) and when it ended
Before(t) == IF t.from \in DOMAIN t.before THEN t.before[t.from] ELSE NewState(t.from)

After(t) == t.after[t.from]

UserLower(t) == Strip(Lower(t.text))

CallsOf(t, op) == {k \in 1..Len(t.calls) : t.calls[k].op = op}

DocumentSends(t) == Cardinality(CallsOf(t, "send_whatsapp_document"))

GeminiCalls(t) == Cardinality(CallsOf(t, "call_gemini_api"))

TheDocumentSend(t) == t.calls[CHOOSE k \in CallsOf(t, "send_whatsapp_document") : TRUE]

TheGeminiCall(t) == t.calls[CHOOSE k \in CallsOf(t, "call_gemini_api") : TRUE]

HasKeyword(t, kws) == \E k \in 1..Len(kws) : Contains(UserLower(t), kws[k])

HasDocumentKeyword(t) == HasKeyword(t, brochure_keywords)

HasAffirmativeToken(t) == HasKeyword(t, affirmative_patterns)

HasHandoffKeyword(t) == HasKeyword(t, contact_patterns)

HasBookingKeyword(t) == HasKeyword(t, booking_keywords_english \o booking_keywords_gujarati)

\* the history grew by the inbound entry and the entries of `replies`
HistoryGrewBy(t, replies) ==
    After(t).chat_history
        = Before(t).chat_history \o <<<<t.text, TRUE>>>> \o [k \in 1..Len(replies) |-> <<replies[k], FALSE>>]

SameBooking(t) ==
    /\ After(t).booking_info = Before(t).booking_info
    /\ After(t).lead_capture_mode = Before(t).lead_capture_mode

FormReplies == {REPLY_BOOKING_FORM_ENGLISH, REPLY_BOOKING_FORM_GUJARATI}

StepReplies ==
    {REPLY_CONFIRM_PHONE_INVALID, REPLY_ASK_DATE, REPLY_DATE_INVALID, REPLY_ASK_TIME,
     REPLY_ASK_UNIT_TYPE, REPLY_UNIT_TYPE_INVALID, REPLY_ASK_BUDGET, REPLY_BUDGET_INVALID,
     REPLY_BOOKING_COMPLETE}

\* the position of the first branch of the claimed order whose condition holds
FirstBranch(t) ==
    IF Before(t).lead_capture_mode = "phone_for_brochure" THEN 1
    ELSE IF HasDocumentKeyword(t) THEN 2
    ELSE IF Before(t).asked_about_brochure /\ HasAffirmativeToken(t) THEN 3
    ELSE IF HasHandoffKeyword(t) THEN 4
    ELSE IF HasBookingKeyword(t) THEN 5
    ELSE IF Before(t).lead_capture_mode = "booking" THEN 6
    ELSE 7

\* the turn shows the effects of branch b and of no other branch
EffectsOfBranch(t, b) ==
    CASE b = 1 -> /\ GeminiCalls(t) = 0 /\ DocumentSends(t) <= 1
                  /\ t.reply \in {None, REPLY_PHONE_SEND_FAILED, REPLY_PHONE_INVALID}
                  /\ After(t).booking_info = Before(t).booking_info
                  /\ After(t).asked_about_brochure = Before(t).asked_about_brochure
      [] b = 2 -> /\ GeminiCalls(t) = 0 /\ DocumentSends(t) = 1
                  /\ t.reply \in {None, REPLY_BROCHURE_SEND_FAILED}
                  /\ SameBooking(t)
      [] b = 3 -> /\ GeminiCalls(t) = 0 /\ DocumentSends(t) = 1
                  /\ t.reply \in {None, REPLY_CONFIRMED_SEND_FAILED}
                  /\ SameBooking(t)
      [] b = 4 -> /\ GeminiCalls(t) = 0 /\ DocumentSends(t) = 0
                  /\ t.reply = REPLY_CONTACT
                  /\ SameBooking(t)
      [] b = 5 -> /\ GeminiCalls(t) = 0 /\ DocumentSends(t) = 0
                  /\ t.reply \in FormReplies
                  /\ SameBooking(t)
      [] b = 6 -> /\ GeminiCalls(t) = 0 /\ DocumentSends(t) = 0
                  /\ \/ t.raised
                     \/ t.reply \in StepReplies
                     \/ t.reply = REPLY_ASK_CONFIRM_PHONE(t.text, t.from)
      [] b = 7 -> /\ GeminiCalls(t) = 1 /\ DocumentSends(t) = 0
                  /\ t.reply \in GeminiAnswers \cup {GEMINI_FALLBACK}
                  /\ SameBooking(t)

(***************************************************************************)
(* C1. The turn is handled by the first branch whose condition holds, in   *)
(* the order phone capture, document keyword, pending confirmation with an *)
(* affirmative token, handoff phrase, booking keyword, booking step,       *)
(* default answer; it shows the effects of that branch alone (its document *)
(* send, template reply, step advance or generative call).                 *)
(***************************************************************************)
C1_FirstMatchingBranchHandles ==
    \A t \in ProcessedTurns : EffectsOfBranch(t, FirstBranch(t))

\* a message with a document keyword and a booking keyword was handled, with
\* the document sent
C1_Witness ==
    \E t \in ProcessedTurns :
        /\ HasDocumentKeyword(t) /\ HasBookingKeyword(t)
        /\ Before(t).lead_capture_mode = None
        /\ DocumentSends(t) = 1

(***************************************************************************)
(* C2. The webhook sends exactly one text, the reply, when the turn        *)
(* returns a reply, and no text when the turn returns nothing;             *)
(* send_whatsapp_text is never called with an absent body.                 *)
(***************************************************************************)
C2_OneTextPerReply ==
    \A t \in ProcessedTurns :
        /\ \A k \in CallsOf(t, "send_whatsapp_text") : t.calls[k].body # None
        /\ ~t.raised /\ t.reply # None =>
               /\ Cardinality(CallsOf(t, "send_whatsapp_text")) = 1
               /\ \A k \in CallsOf(t, "send_whatsapp_text") : t.calls[k].body = t.reply
        /\ t.reply = None => CallsOf(t, "send_whatsapp_text") = {}

(***************************************************************************)
(* C3. In a booking, a valid input for the current step (one without a     *)
(* document, handoff or booking keyword, no brochure confirmation pending) *)
(* moves to the next step of name, confirm_phone, date, time, unit_type,   *)
(* budget, and a valid budget ends the booking: the mode is cleared,       *)
(* awaitingDocumentConfirmation is true and the form redirect is returned. *)
(* So every run of valid inputs from a fresh booking visits the steps in   *)
(* order and ends that way.                                                *)
(***************************************************************************)
ReachesBookingStep(t) ==
    /\ Before(t).lead_capture_mode = "booking"
    /\ ~HasDocumentKeyword(t) /\ ~HasHandoffKeyword(t) /\ ~HasBookingKeyword(t)
    /\ ~(Before(t).asked_about_brochure /\ HasAffirmativeToken(t))

ValidFor(step, t) ==
    CASE step = "name" -> t.text # ""
      [] step = "confirm_phone" -> UserLower(t) \in {"yes", "1"} \/ phone_match(t.text)
      [] step = "date" -> date_match(t.text)
      [] step = "time" -> TRUE
      [] step = "unit_type" -> t.text \in {"1", "2", "3"}
      [] step = "budget" -> extract_budget_from_text(t.text) # None
      [] OTHER -> FALSE

StepIndex(step) == CHOOSE k \in 1..Len(BookingSteps) : BookingSteps[k] = step

C3_ValidInputsRunToCompletion ==
    \A t \in ProcessedTurns :
        ReachesBookingStep(t) /\ ~Before(t).asked_about_brochure
            /\ ValidFor(current_step(Before(t)), t) =>
                /\ ~t.raised
                /\ IF current_step(Before(t)) = "budget"
                   THEN /\ After(t).lead_capture_mode = None
                        /\ After(t).asked_about_brochure
                        /\ t.reply = REPLY_BOOKING_COMPLETE
                   ELSE /\ After(t).lead_capture_mode = "booking"
                        /\ current_step(After(t))
                               = BookingSteps[StepIndex(current_step(Before(t))) + 1]

(***************************************************************************)
(* C4. In a booking at the confirm_phone step, the input "yes" or "1" is   *)
(* accepted: the turn does not fail, booking_info['phone'] becomes the     *)
(* sender's own number and current_step becomes date.                      *)
(***************************************************************************)
C4_YesKeepsSendersNumber ==
    \A t \in ProcessedTurns :
        ReachesBookingStep(t) /\ current_step(Before(t)) = "confirm_phone"
            /\ UserLower(t) \in {"yes", "1"} =>
                /\ ~t.raised
                /\ GetOr(After(t).booking_info, "phone", None) = t.from
                /\ current_step(After(t)) = "date"

(***************************************************************************)
(* C5. In a booking, an input that fails the validation of the current     *)
(* step (confirm_phone, date, unit_type, budget) leaves current_step, the  *)
(* draft, the capture mode and awaitingDocumentConfirmation unchanged and  *)
(* returns the step's re-prompt, which is appended to the history.         *)
(***************************************************************************)
RePrompt(step) ==
    CASE step = "confirm_phone" -> REPLY_CONFIRM_PHONE_INVALID
      [] step = "date" -> REPLY_DATE_INVALID
      [] step = "unit_type" -> REPLY_UNIT_TYPE_INVALID
      [] step = "budget" -> REPLY_BUDGET_INVALID

C5_InvalidInputRePrompts ==
    \A t \in ProcessedTurns :
        ReachesBookingStep(t)
            /\ current_step(Before(t)) \in {"confirm_phone", "date", "unit_type", "budget"}
            /\ ~ValidFor(current_step(Before(t)), t) =>
                /\ SameBooking(t)
                /\ After(t).asked_about_brochure = Before(t).asked_about_brochure
                /\ t.reply = RePrompt(current_step(Before(t)))
                /\ HistoryGrewBy(t, <<t.reply>>)

(***************************************************************************)
(* C6. A turn leaves current_step unchanged or moves it to its immediate   *)
(* successor in name, confirm_phone, date, time, unit_type, budget, and    *)
(* moves it only in booking mode: no step is skipped, none is gone back    *)
(* to, and no turn puts the cursor back on the first step.                 *)
(***************************************************************************)
C6_StepOnlyAdvancesByOne ==
    \A t \in ProcessedTurns :
        \/ current_step(After(t)) = current_step(Before(t))
        \/ /\ Before(t).lead_capture_mode = "booking"
           /\ current_step(Before(t)) \in {BookingSteps[k] : k \in 1..(Len(BookingSteps) - 1)}
           /\ current_step(After(t)) = BookingSteps[StepIndex(current_step(Before(t))) + 1]

\* a date was accepted and the cursor moved from date to time
C6_Witness ==
    \E t \in ProcessedTurns :
        /\ Before(t).lead_capture_mode = "booking"
        /\ current_step(Before(t)) = "date"
        /\ current_step(After(t)) = "time"

C8_HistoryGrowsByTurn ==
    \A t \in ProcessedTurns :
        HistoryGrewBy(t, IF t.reply # None THEN <<t.reply>> ELSE <<>>)

\* a turn that returned nothing after earlier entries, adding the inbound
\* entry alone
C8_Witness ==
    \E t \in ProcessedTurns :
        /\ t.reply = None
        /\ Len(Before(t).chat_history) >= 2
        /\ Len(After(t).chat_history) = Len(Before(t).chat_history) + 1

(***************************************************************************)
(* C9. With no capture mode, a message with a document keyword sets        *)
(* awaitingDocumentConfirmation, sends the document to the sender, and     *)
(* returns nothing (only the inbound entry added) if the send succeeds, or *)
(* the apology naming the fallback phone (recorded in history) if it       *)
(* fails; the turn completes in both cases.                                *)
(***************************************************************************)
FallbackPhone == "+91 1234567890"

C9_DocumentRequestSendsToSender ==
    \A t \in ProcessedTurns :
        Before(t).lead_capture_mode = None /\ HasDocumentKeyword(t) =>
            /\ ~t.raised
            /\ After(t).asked_about_brochure
            /\ DocumentSends(t) = 1
            /\ TheDocumentSend(t).to = t.from
            /\ TheDocumentSend(t).document_id = BROCHURE_MEDIA_ID
            /\ IF TheDocumentSend(t).ok
               THEN t.reply = None /\ HistoryGrewBy(t, <<>>)
               ELSE /\ t.reply = REPLY_BROCHURE_SEND_FAILED
                    /\ Contains(t.reply, FallbackPhone)
                    /\ HistoryGrewBy(t, <<t.reply>>)

\* a document request whose send failed
C9_Witness ==
    \E t \in ProcessedTurns :
        /\ Before(t).lead_capture_mode = None /\ HasDocumentKeyword(t)
        /\ DocumentSends(t) = 1 /\ ~TheDocumentSend(t).ok

(***************************************************************************)
(* C10. A turn that reaches the confirmation check with                    *)
(* awaitingDocumentConfirmation true clears the flag whatever the message  *)
(* is (only a booking that the same message completes sets it again).  An  *)
(* affirmative message sends the document and ends the turn: nothing on    *)
(* success, the apology on failure.  Any other message is handled in the   *)
(* same turn by the handoff, booking-keyword, booking-step or default      *)
(* branch, whichever is first to match.                                    *)
(***************************************************************************)
ReachesConfirmationCheck(t) ==
    /\ Before(t).lead_capture_mode # "phone_for_brochure"
    /\ ~HasDocumentKeyword(t)
    /\ Before(t).asked_about_brochure

MobileNumberAt(text, i) ==
    /\ i >= 1 /\ i + 9 <= Len(text)
    /\ At(text, i) \in {"6", "7", "8", "9"}
    /\ AllIn(text, i + 1, i + 9, Digits)
    /\ ~IsWordAt(text, i + 10)
    /\ \/ ~IsWordAt(text, i - 1)
       \/ i > 3 /\ SubSeq(text, i - 3, i - 1) = "+91"

HasMobileNumber(text) == \E i \in 1..Len(text) : MobileNumberAt(text, i)

InPhoneCaptureBefore(t) == Before(t).lead_capture_mode = "phone_for_brochure"

C11_PhoneCaptureTurn ==
    \A t \in ProcessedTurns :
        InPhoneCaptureBefore(t) =>
            IF HasMobileNumber(t.text)
            THEN /\ After(t).lead_capture_mode = None
                 /\ DocumentSends(t) = 1
                 /\ t.reply = IF TheDocumentSend(t).ok THEN None ELSE REPLY_PHONE_SEND_FAILED
            ELSE /\ t.reply = REPLY_PHONE_INVALID
                 /\ After(t).lead_capture_mode = "phone_for_brochure"
                 /\ DocumentSends(t) = 0

(***************************************************************************)
(* C12. A message that reaches the handoff check and contains a handoff    *)
(* keyword gets the fixed handoff template, which names the fallback phone *)
(* number and the office hours, as its reply, with no document send and no *)
(* generative call.                                                        *)
(***************************************************************************)
\* the turn was not taken by phone capture, the document keyword or the
\* confirmed document offer
ReachesHandoffCheck(t) ==
    /\ Before(t).lead_capture_mode # "phone_for_brochure"
    /\ ~HasDocumentKeyword(t)
    /\ ~(Before(t).asked_about_brochure /\ HasAffirmativeToken(t))

\* the handoff keywords as the specification lists them
ListedHandoffKeywords == <<"agent", "contact", "whatsapp number">>

GetsHandoffTemplate(t) ==
    /\ t.reply = REPLY_CONTACT
    /\ Contains(t.reply, FallbackPhone)
    /\ Contains(t.reply, "office hours (10 AM - 7 PM)")
    /\ DocumentSends(t) = 0
    /\ GeminiCalls(t) = 0

\* C12 as stated, with the keywords the specification lists
C12_ListedKeywordsGetTemplate ==
    \A t \in ProcessedTurns :
        ReachesHandoffCheck(t) /\ HasKeyword(t, ListedHandoffKeywords) => GetsHandoffTemplate(t)

\* C12 as amended: the keywords are the six phrases of contact_patterns
C12_HandoffPhrasesGetTemplate ==
    \A t \in ProcessedTurns :
        ReachesHandoffCheck(t) /\ HasHandoffKeyword(t) => GetsHandoffTemplate(t)

\* a handoff phrase arrived in the middle of a booking and got the template
C12_Witness ==
    \E t \in ProcessedTurns :
        /\ ReachesHandoffCheck(t) /\ HasHandoffKeyword(t)
        /\ Before(t).lead_capture_mode = "booking"
        /\ t.reply = REPLY_CONTACT

(***************************************************************************)
(* C13. A message that reaches the booking-keyword check and contains a    *)
(* booking keyword gets the form-link template in the language detected    *)
(* for that message, and lead_capture_mode and booking_info stay exactly   *)
(* as they were.                                                           *)
(***************************************************************************)
ReachesBookingKeywordCheck(t) == ReachesHandoffCheck(t) /\ ~HasHandoffKeyword(t)

\* the form-link template of a language
FormReplyIn(language) ==
    IF language = "gujarati" THEN REPLY_BOOKING_FORM_GUJARATI ELSE REPLY_BOOKING_FORM_ENGLISH

FormUrlIn(language) == IF language = "gujarati" THEN gujarati_form_url ELSE english_form_url

C13_BookingKeywordGetsFormLink ==
    \A t \in ProcessedTurns :
        ReachesBookingKeywordCheck(t) /\ HasBookingKeyword(t) =>
            /\ t.reply = FormReplyIn(detect_language(t.text))
            /\ Contains(t.reply, FormUrlIn(detect_language(t.text)))
            /\ DocumentSends(t) = 0 /\ GeminiCalls(t) = 0
            /\ SameBooking(t)

\* a booking keyword in a message detected as gujarati arrived in the middle
\* of a booking: the gujarati form link, the booking untouched
C13_Witness ==
    \E t \in ProcessedTurns :
        /\ ReachesBookingKeywordCheck(t) /\ HasBookingKeyword(t)
        /\ detect_language(t.text) = "gujarati"
        /\ Before(t).lead_capture_mode = "booking"
        /\ current_step(Before(t)) = "date"
        /\ t.reply = REPLY_BOOKING_FORM_GUJARATI
        /\ After(t).booking_info = Before(t).booking_info

(***************************************************************************)
(* C14. call_gemini_api makes at most two backend attempts per call; the   *)
(* second one only after the first failed (exception, non-success status   *)
(* or unusable body) and only after the fixed delay; a successful first    *)
(* attempt is returned with no retry and no delay; if both attempts fail   *)
(* the result is exactly the fixed fallback text, which names the fallback *)
(* phone number.                                                           *)
(***************************************************************************)
GeminiReturned == call.fn = "call_gemini_api"

\* the results of the backend attempts of the call, in order
AttemptsOf(log) == SelectSeq(log, LAMBDA e : e.ev = "post")

Failed(e) == e.arg \in {"bad_response", "exception"}

C14_OneRetryAfterDelay ==
    GeminiReturned =>
        LET log      == call.result.log
            attempts == AttemptsOf(log)
        IN  /\ Len(attempts) \in {1, 2}
            /\ Len(attempts) = 2 =>
                   /\ Failed(attempts[1])
                   /\ log = <<attempts[1], SleepEvent, attempts[2]>>
            /\ ~Failed(attempts[1]) =>
                   /\ log = <<attempts[1]>>
                   /\ call.result.text \in GeminiAnswers
            /\ Failed(attempts[1]) => Len(attempts) = 2
            /\ Len(attempts) = 2 /\ ~Failed(attempts[2]) => call.result.text \in GeminiAnswers
            /\ (\A k \in 1..Len(attempts) : Failed(attempts[k])) =>
                   /\ call.result.text = GEMINI_FALLBACK
                   /\ Contains(call.result.text, FallbackPhone)

\* a call whose first attempt raised and whose second one, after the delay,
\* failed as well
C14_Witness ==
    /\ GeminiReturned
    /\ call.result.log = <<PostEvent("exception"), SleepEvent, PostEvent("bad_response")>>
    /\ call.result.text = GEMINI_FALLBACK

(***************************************************************************)
(* C15. When no earlier branch handles the turn, the default branch calls  *)
(* the generative backend once, returns its result and appends it to the   *)
(* history as the bot's entry; when both attempts fail, the fixed fallback *)
(* text is returned and is the last history entry, and the turn raises no  *)
(* error.                                                                  *)
(***************************************************************************)
LastEntry(history) == history[Len(history)]

TurnLanguage(t) == detect_language(t.text)

\* the turns k and k + 1 of the last delivery are processed turns of one sender
ConsecutiveTurns(k) ==
    /\ k >= 1 /\ k + 1 <= Len(last.turns)
    /\ ~last.turns[k].skipped /\ ~last.turns[k + 1].skipped
    /\ last.turns[k].from = last.turns[k + 1].from

C16_LanguageFollowsEachMessage ==
    /\ \A t \in ProcessedTurns :
          /\ After(t).language = TurnLanguage(t)
          /\ GeminiCalls(t) = 1 => TheGeminiCall(t).prompt.language = TurnLanguage(t)
          /\ t.reply \in FormReplies => t.reply = FormReplyIn(TurnLanguage(t))
    /\ \A k \in 1..Len(last.turns) :
          ConsecutiveTurns(k) =>
              /\ Before(last.turns[k + 1]).language = TurnLanguage(last.turns[k])
              /\ After(last.turns[k + 1]).language = TurnLanguage(last.turns[k + 1])

\* a gujarati message answered by the default branch, then an english
\* booking request of the same sender answered with the english form
C16_Witness ==
    \E k \in 1..Len(last.turns) :
        /\ ConsecutiveTurns(k)
        /\ TurnLanguage(last.turns[k]) = "gujarati"
        /\ GeminiCalls(last.turns[k]) = 1
        /\ TheGeminiCall(last.turns[k]).prompt.language = "gujarati"
        /\ TurnLanguage(last.turns[k + 1]) = "english"
        /\ Before(last.turns[k + 1]).language = "gujarati"
        /\ last.turns[k + 1].reply = REPLY_BOOKING_FORM_ENGLISH
        /\ After(last.turns[k + 1]).language = "english"

(***************************************************************************)
(* C17. detect_language returns one of the two tags for every text: for a  *)
(* text of n characters of which g are gujarati, it returns gujarati iff   *)
(* n > 0 and g / n is strictly greater than 0.2 (5g > n); a ratio of       *)
(* exactly 0.2 and the empty text both give english.                       *)
(***************************************************************************)
DetectReturned == call.fn = "detect_language"

\* the number of gujarati characters among the first k of the text
RECURSIVE SecondaryAmong(_, _)
SecondaryAmong(text, k) ==
    IF k = 0 THEN 0
    ELSE SecondaryAmong(text, k - 1) + (IF At(text, k) \in GujaratiChars THEN 1 ELSE 0)

C17_SecondaryIffOverFifth ==
    DetectReturned =>
        LET n == Len(call.text)
            g == SecondaryAmong(call.text, Len(call.text))
        IN  /\ call.result \in {"english", "gujarati"}
            /\ call.result = "gujarati" <=> (n > 0 /\ 5 * g > n)
            /\ n = 0 => call.result = "english"
            /\ 5 * g = n => call.result = "english"

\* a text of five characters, one of them gujarati: exactly 0.2, english
C17_Witness ==
    /\ DetectReturned
    /\ Len(call.text) = 5
    /\ SecondaryAmong(call.text, 5) = 1
    /\ call.result = "english"

(***************************************************************************)
(* C18. extract_budget_from_text returns a value iff a currency pattern    *)
(* matches the lower-cased text; the value comes from the first pattern in *)
(* list order that matches (a crore pattern before a lakh pattern,         *)
(* wherever the amounts stand in the text) and ends in exactly " Cr" for a *)
(* crore pattern and " Lakh" for a lakh pattern; with no match it returns  *)
(* nothing.                                                                *)
(***************************************************************************)
BudgetReturned == call.fn = "extract_budget_from_text"

\* the index of the last character at or before k that is no whitespace
RECURSIVE BackOverSpace(_, _)
BackOverSpace(text, k) ==
    IF k >= 1 /\ At(text, k) \in Whitespace THEN BackOverSpace(text, k - 1) ELSE k

\* the unit word stands at p and an amount (digits, with an optional dot and
\* further digits) ends right before it or before the whitespace before it
AmountBefore(text, p) ==
    LET q == BackOverSpace(text, p - 1)
    IN  /\ q >= 1
        /\ \/ At(text, q) \in Digits
           \/ At(text, q) = "." /\ q >= 2 /\ At(text, q - 1) \in Digits

AmountWithUnit(text, unit) ==
    \E p \in 1..Len(text) : OccursAt(text, unit, p) /\ AmountBefore(text, p)

EndsWith(text, suffix) ==
    /\ Len(text) >= Len(suffix)
    /\ SubSeq(text, Len(text) - Len(suffix) + 1, Len(text)) = suffix

\* digits, a dot, digits: how Python prints the float
IsFloatText(text) ==
    \E d \in 2..Len(text) - 1 :
        /\ At(text, d) = "."
        /\ AllIn(text, 1, d - 1, Digits)
        /\ AllIn(text, d + 1, Len(text), Digits)

ValueWithSuffix(value, suffix) ==
    /\ EndsWith(value, suffix)
    /\ IsFloatText(SubSeq(value, 1, Len(value) - Len(suffix)))

C18_FirstPatternInListOrder ==
    BudgetReturned =>
        LET text_lower == Lower(call.text)
            crore == AmountWithUnit(text_lower, "cr")
            lakh  == AmountWithUnit(text_lower, "lakh")
        IN  /\ call.result # None <=> (crore \/ lakh)
            /\ crore => ValueWithSuffix(call.result, " Cr")
            /\ ~crore /\ lakh => ValueWithSuffix(call.result, " Lakh")

\* a lakh amount stands before a crore amount: the crore amount is returned
C18_Witness ==
    /\ BudgetReturned
    /\ call.text = "50 lakh 1.5 cr"
    /\ call.result = "1.5 Cr"

(***************************************************************************)
(* C19. extract_relevant_data merges the fallback sections (unit           *)
(* configurations, pricing, both unit plans, amenities, location, as far   *)
(* as the tree holds them) exactly when the result after all topic checks  *)
(* holds at most two entries, which is exactly the case of identity data   *)
(* plus at most one topical entry; with two or more topical entries the    *)
(* fallback sections are not merged.                                       *)
(***************************************************************************)
RelevantReturned == call.fn = "extract_relevant_data"

\* the tree the call read
TreeRead == lang_data_of(call.faq_data, call.language)

\* the entries other than the identity data after all topic checks
TopicalEntries == Cardinality(DOMAIN call.checked.data \ {"project_info"})

\* every fallback section of the tree is in the result, as the tree holds
\* it, and nothing else was changed
FallbackMerged ==
    LET merged == {fallback_sections[k] : k \in 1..Len(fallback_sections)} \cap DOMAIN TreeRead
    IN  /\ DOMAIN call.result.data = DOMAIN call.checked.data \cup merged
        /\ \A name \in merged : call.result.data[name] = TreeRead[name]
        /\ \A key \in DOMAIN call.checked.data \ merged :
               call.result.data[key] = call.checked.data[key]

FallbackNotMerged == call.result.data = call.checked.data

\* C19 as stated
C19_FallbackIffAtMostOneTopical ==
    RelevantReturned =>
        /\ Cardinality(DOMAIN call.checked.data) <= 2 <=> TopicalEntries <= 1
        /\ IF TopicalEntries <= 1 THEN FallbackMerged ELSE FallbackNotMerged

\* C19 as amended: the count of entries decides; it is identity data plus at
\* most one topical entry when the tree holds identity data
C19_FallbackIffAtMostTwoEntries ==
    RelevantReturned =>
        /\ IF Cardinality(DOMAIN call.checked.data) <= 2
           THEN FallbackMerged ELSE FallbackNotMerged
        /\ "project_info" \in DOMAIN TreeRead =>
               (Cardinality(DOMAIN call.checked.data) <= 2 <=> TopicalEntries <= 1)
        /\ "project_info" \notin DOMAIN TreeRead =>
               (Cardinality(DOMAIN call.checked.data) <= 2 <=> TopicalEntries <= 2)

\* a tree without identity data and a question with two topical entries:
\* the fallback sections were merged
C19_Witness ==
    /\ RelevantReturned
    /\ "project_info" \notin DOMAIN TreeRead
    /\ DOMAIN call.checked.data = {"location_details", "possession_details"}
    /\ FallbackMerged
    /\ "pricing" \in DOMAIN call.result.data

(***************************************************************************)
(* C20. When the requested language has no knowledge tree, the case where  *)
(* its file failed to load and the store holds an empty tree for it        *)
(* included, extract_relevant_data selects the sections from the english   *)
(* tree instead of building the result from the empty tree.                *)
(***************************************************************************)
NoTreeFor(faq_data, language) ==
    language \notin DOMAIN faq_data \/ faq_data[language] = EmptyDict

C20_FallsBackToEnglishTree ==
    RelevantReturned /\ NoTreeFor(call.faq_data, call.language) =>
        call.result = extract_relevant_data(call.user_question, call.faq_data, "english")

(***************************************************************************)
(* C21. The prompt built for a turn contains at most 4 history entries:    *)
(* the most recent entries of chat_history in their original order, each   *)
(* tagged User or Bot by its flag.  In the default branch the last of them *)
(* is the inbound message of the turn, so at most 3 earlier entries are in *)
(* the prompt.                                                             *)
(***************************************************************************)
\* chat_history when the default branch builds the prompt
HistoryAtPrompt(t) == Before(t).chat_history \o <<<<t.text, TRUE>>>>

Tagged(entry) == <<IF entry[2] THEN "User" ELSE "Bot", entry[1]>>

\* the context holds the last n entries of the history, in order, tagged
IsTailOf(context, history) ==
    /\ Len(context) <= Len(history)
    /\ \A k \in 1..Len(context) :
           context[k] = Tagged(history[Len(history) - Len(context) + k])

C21_PromptHoldsLastFourEntries ==
    \A t \in ProcessedTurns :
        \A k \in CallsOf(t, "call_gemini_api") :
            LET context == t.calls[k].prompt.context
                history == HistoryAtPrompt(t)
            IN  /\ Len(context) <= 4
                /\ Len(context) = IF Len(history) > 4 THEN 4 ELSE Len(history)
                /\ IsTailOf(context, history)
                /\ context[Len(context)] = <<"User", t.text>>
                /\ t.calls[k].prompt.user_question = t.text

\* a default turn on a history of more than four entries: the prompt holds
\* the inbound message after three earlier entries, a bot entry among them
C21_Witness ==
    \E t \in ProcessedTurns :
        /\ GeminiCalls(t) = 1
        /\ Len(HistoryAtPrompt(t)) > 4
        /\ Len(TheGeminiCall(t).prompt.context) = 4
        /\ TheGeminiCall(t).prompt.context[4] = <<"User", t.text>>
        /\ \E k \in 1..3 : TheGeminiCall(t).prompt.context[k][1] = "Bot"

(***************************************************************************)
(* C22. Within one delivery of several messages, an exception raised while *)
(* one message is processed does not stop the rest of the delivery: every  *)
(* later message with text still gets its turn and its reply.              *)
(***************************************************************************)
\* the positions of the delivery that carry text
TextBearing == {k \in 1..Len(last.messages) : message_text_of(last.messages[k]) # ""}

\* message k of the delivery got its turn, and its reply unless it raised
GotItsTurn(k) ==
    /\ k <= Len(last.turns)
    /\ ~last.turns[k].skipped
    /\ last.turns[k].message = last.messages[k]
    /\ ~last.turns[k].raised =>
           \E c \in CallsOf(last.turns[k], "send_whatsapp_text") :
               last.turns[k].calls[c].to = last.turns[k].from

C22_ExceptionDoesNotStopDelivery ==
    \A j \in 1..Len(last.turns) :
        last.turns[j].raised => \A k \in TextBearing : k > j => GotItsTurn(k)

(***************************************************************************)
(* C23. Every delivery is acknowledged to the transport with status 200,   *)
(* also when the processing of a message raised an exception and when     *)
(* every message of the delivery was skipped.                              *)
(***************************************************************************)
Delivered == last # NoDelivery

C23_EveryDeliveryAcknowledged ==
    Delivered => last.status = 200

\* a delivery whose first message was skipped and whose second raised, and
\* that was acknowledged
C23_Witness ==
    /\ Delivered
    /\ Len(last.turns) = 2
    /\ last.turns[1].skipped
    /\ last.turns[2].raised
    /\ last.raised
    /\ last.status = 200

(***************************************************************************)
(* C24. A message of a delivery that yields no text (unsupported type,     *)
(* missing or empty field) is skipped: it is not marked read, no turn runs *)
(* for it, no conversation state is created or changed and no reply is     *)
(* sent, while the messages after it in the delivery are still processed   *)
(* in order.                                                               *)
(***************************************************************************)
\* the store after turn k of the delivery
StoreAfter(k) == IF k = Len(last.turns) THEN CONV_STATE ELSE last.turns[k + 1].before

C24_TextlessMessageSkipped ==
    \A k \in 1..Len(last.turns) :
        message_text_of(last.messages[k]) = "" =>
            /\ last.turns[k].skipped
            /\ last.turns[k].calls = <<>>
            /\ last.turns[k].reply = None
            /\ last.turns[k].after = last.turns[k].before
            /\ StoreAfter(k) = last.turns[k].before
            /\ k < Len(last.messages) =>
                   /\ Len(last.turns) > k
                   /\ last.turns[k + 1].message = last.messages[k + 1]
                   /\ message_text_of(last.messages[k + 1]) # "" =>
                          /\ ~last.turns[k + 1].skipped
                          /\ last.turns[k + 1].calls[1]
                                 = MarkReadCall(last.messages[k + 1].id)

\* a first contact whose message is skipped before a sibling is answered:
\* the skipped sender has no state, the sibling's sender has
C24_Witness ==
    /\ Len(last.turns) = 2
    /\ last.turns[1].skipped
    /\ last.turns[1].from \notin DOMAIN CONV_STATE
    /\ ~last.turns[2].skipped
    /\ last.turns[2].from \in DOMAIN CONV_STATE
    /\ \E c \in CallsOf(last.turns[2], "send_whatsapp_text") : TRUE

(***************************************************************************)
(* C25. As claimed: the text handed to the turn is the first non-empty     *)
(* value among the plain text body, the button-reply title and the         *)
(* list-reply title of the message, and a message in which one of these is *)
(* non-empty is processed with that value, not skipped.                    *)
(* As the code has it: the message type selects the one source that is     *)
(* read (the body for text, the button text for button, and for            *)
(* interactive the button-reply title if a button reply is present, else   *)
(* the list-reply title); the message is processed with that value when it *)
(* is non-empty and skipped when it is empty, whatever the other sources   *)
(* hold.                                                                   *)
(***************************************************************************)
\* the string at the end of a path of keys in a message, "" if a key is absent
RECURSIVE Dig(_, _)
Dig(d, path) ==
    IF path = <<>> THEN d
    ELSE IF Head(path) \in DOMAIN d THEN Dig(d[Head(path)], Tail(path))
    ELSE ""

PlainBody(m) == Dig(m, <<"text", "body">>)

ButtonReplyTitle(m) == Dig(m, <<"interactive", "button_reply", "title">>)

ListReplyTitle(m) == Dig(m, <<"interactive", "list_reply", "title">>)

FirstNonEmpty(m) ==
    IF PlainBody(m) # "" THEN PlainBody(m)
    ELSE IF ButtonReplyTitle(m) # "" THEN ButtonReplyTitle(m)
    ELSE ListReplyTitle(m)

\* the one source the type of the message selects
SelectedSource(m) ==
    LET type == Dig(m, <<"type">>)
    IN  CASE type = "text" -> PlainBody(m)
          [] type = "button" -> Dig(m, <<"button", "text">>)
          [] type = "interactive" ->
                 IF "interactive" \in DOMAIN m /\ "button_reply" \in DOMAIN m.interactive
                 THEN ButtonReplyTitle(m) ELSE ListReplyTitle(m)
          [] OTHER -> ""

\* the turn was run by process_incoming_message on the text: the inbound
\* entry of the history is the text
ProcessedWith(t, text) ==
    /\ ~t.skipped
    /\ t.text = text
    /\ After(t).chat_history[Len(Before(t).chat_history) + 1] = <<text, TRUE>>

C25_FirstNonEmptySourceWins ==
    \A k \in 1..Len(last.turns) :
        LET t == last.turns[k] IN
            /\ FirstNonEmpty(t.message) # "" => ProcessedWith(t, FirstNonEmpty(t.message))
            /\ ~t.skipped => t.text = FirstNonEmpty(t.message)

C25_SourceSelectedByType ==
    \A k \in 1..Len(last.turns) :
        LET t == last.turns[k] IN
            /\ SelectedSource(t.message) # "" => ProcessedWith(t, SelectedSource(t.message))
            /\ SelectedSource(t.message) = "" => t.skipped

\* a delivery with a list reply processed with its title and a typeless
\* text body skipped
C25_Witness ==
    /\ Len(last.turns) = 2
    /\ ListReplyTitle(last.turns[1].message) # ""
    /\ ProcessedWith(last.turns[1], ListReplyTitle(last.turns[1].message))
    /\ PlainBody(last.turns[2].message) # ""
    /\ last.turns[2].skipped

(***************************************************************************)
(* C26. After check_new_bookings processed a new row (empty status, with   *)
(* phone, name, date and time), that row's status is Confirmed if its      *)
(* confirmation was sent and the send-failed status if the send failed,    *)
(* wherever the row is in the sheet and whatever happened to the other     *)
(* rows of the run.                                                        *)
(***************************************************************************)
\* the sheet rows when run p of check_new_bookings ended
RowsAfter(p) == IF p < Len(polls) THEN polls[p + 1].before ELSE sheet

SendsOf(p) == {polls[p].sends[k] : k \in 1..Len(polls[p].sends)}

C26_RowStatusFollowsItsSend ==
    \A p \in 1..Len(polls) :
        \A e \in SendsOf(p) :
            RowsAfter(p)[e.record]["Status"]
                = IF e.ok THEN STATUS_CONFIRMED ELSE STATUS_SEND_FAILED

(***************************************************************************)
(* C27. Across the runs of check_new_bookings no row is processed twice: a *)
(* row with a status is never sent a confirmation, and every row a         *)
(* confirmation was attempted for in one run has a status before the next  *)
(* run starts (duplicates of another row included), so that no later run   *)
(* sends to it again.                                                      *)
(***************************************************************************)
C27_NoRowProcessedTwice ==
    /\ \A p \in 1..Len(polls) :
           \A e \in SendsOf(p) :
               /\ polls[p].before[e.record]["Status"] = ""
               /\ RowsAfter(p)[e.record]["Status"] # ""
    /\ \A p \in 1..Len(polls) : \A q \in 1..Len(polls) :
           p < q => \A e \in SendsOf(p) : \A f \in SendsOf(q) : e.record # f.record

(***************************************************************************)
(* C28. process_incoming_message holds no lock per sender.  When two       *)
(* messages of one sender are processed side by side, there is a schedule  *)
(* in which both turns read the same asked_about_brochure flag, or the     *)
(* same current_step of the booking, before either writes it.  Both then   *)
(* act on it: two documents are sent for one pending confirmation, or one  *)
(* booking step consumes both inputs, and the final state is the result of *)
(* neither serial order of the two turns.                                  *)
(***************************************************************************)
BothDone == \A i \in DOMAIN running.threads : running.threads[i].pc = "done"

\* the stores the two turns leave when one runs after the other
SerialResults ==
    UNION {UNION {{o2.conv : o2 \in process_incoming_message(
                                        o1.conv, Phone1, running.threads[j].text)}
                  : o1 \in process_incoming_message(
                               running.start, Phone1, running.threads[i].text)}
           : <<i, j>> \in {<<1, 2>>, <<2, 1>>}}

SentDocument(i) ==
    \E k \in 1..Len(running.threads[i].calls) :
        running.threads[i].calls[k].op = "send_whatsapp_document"

\* both turns read the pending confirmation and carry an affirmative text
BothReadTheFlag ==
    \A i \in DOMAIN running.threads :
        /\ running.threads[i].flag
        /\ IsAffirmative(Strip(Lower(running.threads[i].text)))

\* both turns read the step `name` of the booking
BothReadTheStep == \A i \in DOMAIN running.threads : running.threads[i].step = "name"

C28_UnlockedTurnsActOnOneRead ==
    (running # NotRunning /\ BothDone) =>
        /\ BothReadTheFlag =>
               /\ \A i \in DOMAIN running.threads : SentDocument(i)
               /\ ~CONV_STATE[Phone1].asked_about_brochure
               /\ CONV_STATE \notin SerialResults
        /\ BothReadTheStep =>
               /\ \A i \in DOMAIN running.threads :
                      running.threads[i].reply
                          = REPLY_ASK_CONFIRM_PHONE(running.threads[i].text, Phone1)
               /\ current_step(CONV_STATE[Phone1]) = "confirm_phone"
               /\ CONV_STATE \notin SerialResults

\* the schedule of the claim has run: one confirmation was pending, both
\* turns read it and each sent the document
C28_Witness ==
    /\ running # NotRunning
    /\ running.start = PendingConfirmation
    /\ BothDone
    /\ BothReadTheFlag
    /\ \A i \in DOMAIN running.threads : SentDocument(i)
    /\ CONV_STATE \notin SerialResults

(***************************************************************************)
(* C29. The state of a sender is created exactly when the first message of *)
(* that sender is processed, with an empty history, no capture mode, the   *)
(* language english and no pending confirmation.  No later turn, of that   *)
(* sender or another, removes or replaces it: the set of known senders     *)
(* only grows.                                                             *)
(***************************************************************************)
IsPrefix(a, b) == Len(a) <= Len(b) /\ SubSeq(b, 1, Len(a)) = a

\* what the turn left of a state created with the values of the claim: the
\* history starts with the inbound message, the mode is still None and the
\* booking empty (no branch sets them), the flag is set by the document
\* branch only, the language is that of the message
LeftOfNewState(t) ==
    /\ After(t).chat_history[1] = <<t.text, TRUE>>
    /\ Len(After(t).chat_history) <= 2
    /\ After(t).lead_capture_mode = None
    /\ After(t).booking_info = EmptyDict
    /\ After(t).user_phone = t.from
    /\ After(t).language = detect_language(t.text)
    /\ After(t).asked_about_brochure = HasDocumentKeyword(t)

C29_StateCreatedOnceAndKept ==
    \A k \in 1..Len(last.turns) :
        LET t == last.turns[k] IN
            /\ DOMAIN (IF k = Len(last.turns) THEN CONV_STATE ELSE last.turns[k + 1].before)
                   = DOMAIN t.after
            /\ t.skipped => DOMAIN t.after = DOMAIN t.before
            /\ ~t.skipped =>
                   /\ DOMAIN t.after = DOMAIN t.before \cup {t.from}
                   /\ \A p \in DOMAIN t.before \ {t.from} : t.after[p] = t.before[p]
                   /\ t.from \notin DOMAIN t.before => LeftOfNewState(t)
                   /\ t.from \in DOMAIN t.before =>
                          /\ IsPrefix(t.before[t.from].chat_history, After(t).chat_history)
                          /\ Len(After(t).chat_history) > Len(t.before[t.from].chat_history)
                          /\ After(t).user_phone = t.before[t.from].user_phone

\* a delivery of two messages of a new sender: the first turn creates the
\* state, the second finds it and extends its history
C29_Witness ==
    /\ Len(last.turns) = 2
    /\ ~last.turns[1].skipped /\ ~last.turns[2].skipped
    /\ last.turns[1].from = last.turns[2].from
    /\ last.turns[1].from \notin DOMAIN last.turns[1].before
    /\ LeftOfNewState(last.turns[1])
    /\ last.turns[2].before = last.turns[1].after
    /\ IsPrefix(After(last.turns[1]).chat_history, After(last.turns[2]).chat_history)
    /\ Len(After(last.turns[2]).chat_history) > Len(After(last.turns[1]).chat_history)

(***************************************************************************)
(* C30. Every turn terminates, given that each external call returns or    *)
(* fails: it ends with a reply text or with nothing.  No branch loops or   *)
(* waits without end; the one loop, that of the generative answer, makes   *)
(* at most two attempts.                                                   *)
(***************************************************************************)
TurnRunning ==
    \E i \in DOMAIN running.threads : running.threads[i].pc \notin {"idle", "done"}

\* the turn returned: nothing, or a text that is the last entry of the
\* history
TurnEnded ==
    \A i \in DOMAIN running.threads :
        /\ running.threads[i].pc = "done"
        /\ ~running.threads[i].raised
        /\ \/ running.threads[i].reply = None
           \/ LastEntry(CONV_STATE[Phone1].chat_history) = <<running.threads[i].reply, FALSE>>

AtMostTwoAttempts ==
    call.fn = "call_gemini_api" => call.attempt <= 2 /\ call.failures <= 2 /\ call.sleeps <= 1

C30_EveryTurnTerminates == [] AtMostTwoAttempts /\ (TurnRunning ~> TurnEnded)

\* a turn ended with the fallback text after two failed attempts
C30_Witness ==
    /\ running # NotRunning
    /\ TurnEnded
    /\ call.fn = "call_gemini_api"
    /\ call.failures = 2
    /\ call.sleeps = 1
    /\ \E i \in DOMAIN running.threads : running.threads[i].reply = GEMINI_FALLBACK

(***************************************************************************)
(* C31.  Starting from an empty store, lead_capture_mode is None in every  *)
(* conversation state of every reachable state and booking_info stays      *)
(* empty: no turn sets the mode to 'phone_for_brochure' or 'booking', so   *)
(* no turn begins in either mode, and no turn answers with a reply of the  *)
(* phone-capture branch or of the booking steps.                           *)
(***************************************************************************)
NoCapture(state) ==
    /\ state.lead_capture_mode = None
    /\ state.booking_info = EmptyDict

StoreWithoutCapture(conv) == \A p \in DOMAIN conv : NoCapture(conv[p])

CaptureReplies ==
    StepReplies \cup {REPLY_PHONE_SEND_FAILED, REPLY_PHONE_INVALID}
        \cup {REPLY_ASK_CONFIRM_PHONE(text, p) : text \in CoreTexts, p \in {Phone1, Phone2}}

C31_CaptureModeNeverSet ==
    /\ StoreWithoutCapture(CONV_STATE)
    /\ \A k \in 1..Len(last.turns) :
          /\ StoreWithoutCapture(last.turns[k].before)
          /\ StoreWithoutCapture(last.turns[k].after)
          /\ ~last.turns[k].skipped =>
                /\ ~InPhoneCapture(Before(last.turns[k]))
                /\ ~InBooking(Before(last.turns[k]))
                /\ last.turns[k].reply \notin CaptureReplies

\* a sender asks for a booking and gets the form link, then writes again in
\* the same delivery: the second turn is answered by the default branch
C31_Witness ==
    /\ Len(last.turns) = 2
    /\ ~last.turns[1].skipped /\ ~last.turns[2].skipped
    /\ last.turns[1].from = last.turns[2].from
    /\ HasBookingKeyword(last.turns[1])
    /\ last.turns[1].reply \in FormReplies
    /\ ~HasBookingKeyword(last.turns[2])
    /\ GeminiCalls(last.turns[2]) = 1
    /\ NoCapture(CONV_STATE[last.turns[2].from])

(***************************************************************************)
(* C32.  Every turn performs at most one document send and at most one     *)
(* call of call_gemini_api, and never both: a turn that sends a document   *)
(* makes no generative call, and a turn answered by the default branch     *)
(* sends no document.  A skipped message performs neither.                 *)
(***************************************************************************)
C32_DocumentOrAnswerNeverBoth ==
    \A k \in 1..Len(last.turns) :
        LET t == last.turns[k]
        IN  /\ DocumentSends(t) <= 1
            /\ GeminiCalls(t) <= 1
            /\ DocumentSends(t) + GeminiCalls(t) <= 1
            /\ DocumentSends(t) = 1 => GeminiCalls(t) = 0
            /\ GeminiCalls(t) = 1 => DocumentSends(t) = 0
            /\ t.skipped => DocumentSends(t) = 0 /\ GeminiCalls(t) = 0

\* one delivery with a turn that sends the document and a turn the default
\* branch answers, of the same sender
C32_Witness ==
    /\ Len(last.turns) = 2
    /\ last.turns[1].from = last.turns[2].from
    /\ DocumentSends(last.turns[1]) = 1 /\ GeminiCalls(last.turns[1]) = 0
    /\ TheDocumentSend(last.turns[1]).ok
    /\ GeminiCalls(last.turns[2]) = 1 /\ DocumentSends(last.turns[2]) = 0

(***************************************************************************)
(* C33. In the booking sheet a status written as Confirmed is never        *)
(* changed afterwards: every row a run of check_new_bookings wrote         *)
(* Confirmed to is Confirmed when that run ends, whatever the run did for  *)
(* the rows after it, and a row that is Confirmed when a run starts is     *)
(* Confirmed when it ends.                                                 *)
(***************************************************************************)
WritesOf(p) == {polls[p].writes[k] : k \in 1..Len(polls[p].writes)}

ConfirmedRows(rows) == {k \in 1..Len(rows) : rows[k]["Status"] = STATUS_CONFIRMED}

C33_ConfirmedIsNeverOverwritten ==
    \A p \in 1..Len(polls) :
        /\ \A w \in WritesOf(p) :
               w.value = STATUS_CONFIRMED => (w.row_num - 1) \in ConfirmedRows(RowsAfter(p))
        /\ ConfirmedRows(polls[p].before) \subseteq ConfirmedRows(RowsAfter(p))

\* the part of C33 about later runs: what is Confirmed when a run starts is
\* Confirmed when it ends
ConfirmedKeptAcrossRuns ==
    \A p \in 1..Len(polls) : ConfirmedRows(polls[p].before) \subseteq ConfirmedRows(RowsAfter(p))

\* a run with a Confirmed row before it that made a send and a write
ConfirmedKeptAcrossRuns_Witness ==
    \E p \in 1..Len(polls) :
        /\ ConfirmedRows(polls[p].before) # {}
        /\ polls[p].writes # <<>>

(***************************************************************************)
(* Turns of distinct senders and the booking checker run side by side.     *)
(* The server runs each request in a thread of its own and                 *)
(* check_bookings_periodically runs in a daemon thread started before      *)
(* app.run.  Thread i runs the turns of sender SenderOf(i), one after the  *)
(* other.  A turn is cut after its entry (lines 646-664), where it has     *)
(* stored or fetched the sender's state dict; lines 666-972 then work on   *)
(* that dict through the local `state`.  A form submission and a run of    *)
(* check_new_bookings are steps of their own between the steps of turns.   *)
(***************************************************************************)
SenderOf(i) == IF i = 1 THEN Phone1 ELSE Phone2

\* the most form submissions, and the most runs of check_new_bookings,
\* beside the turns
MaxBeside == 1

InterleavedTexts == {"can you send the brochure", "yes"}

\* the booking form is submitted with the number of the second sender
InterleavedRows == {FormRow("+" \o Phone2, "Ben")}

\* the threads that are inside a turn beside thread i
Beside(i) == {j \in Threads \ {i} : running.threads[j].pc = "entered"}

InitInterleaved ==
    /\ CONV_STATE = EmptyDict
    /\ last = NoDelivery
    /\ delivered = 0
    /\ call = NoCall
    /\ sheet = <<>>
    /\ polls = <<>>
    /\ running = [start |-> CONV_STATE,
                  threads |-> [i \in Threads |->
                                  [beside |-> None] @@ IdleThread]]

\* lines 646-664 for a message of the thread's sender
TurnEnters(i, message_text) ==
    /\ Thread(i).pc \in {"idle", "done"}
    /\ delivered < MaxTurns
    /\ delivered' = delivered + 1
    /\ CONV_STATE' = Put(CONV_STATE, SenderOf(i),
                         Entered(CONV_STATE, SenderOf(i), message_text))
    /\ Goes(i, "entered", [text |-> message_text, beside |-> None,
                           calls |-> <<>>, reply |-> None, raised |-> FALSE])
    /\ UNCHANGED <<last, call, sheet, polls>>

\* lines 666-972 on the sender's state as the store holds it
TurnResponds(i) ==
    /\ Thread(i).pc = "entered"
    /\ \E o \in Route(CONV_STATE, SenderOf(i), Thread(i).text, Strip(Lower(Thread(i).text)),
                      CONV_STATE[SenderOf(i)]) :
          /\ CONV_STATE' = o.conv
          /\ Goes(i, "done", [calls |-> o.calls, reply |-> o.reply, raised |-> o.raised,
                              beside |-> Beside(i)])
    /\ UNCHANGED <<last, delivered, call, sheet, polls>>

NextInterleaved ==
    \/ \E i \in Threads : \E message_text \in InterleavedTexts : TurnEnters(i, message_text)
    \/ \E i \in Threads : TurnResponds(i)
    \/ \E row \in InterleavedRows : Len(sheet) < MaxBeside /\ SubmitForm(row)
    \/ Len(polls) < MaxBeside /\ CheckNewBookings

SpecInterleaved == InitInterleaved /\ [][NextInterleaved]_vars

(***************************************************************************)
(* C34. A turn of sender A reads and writes A's conversation state only.   *)
(* In every step of every interleaving of the turns of distinct senders,   *)
(* the form submissions and the runs of check_new_bookings: a step of A's  *)
(* turn leaves the state of every other sender as it was (chat_history,    *)
(* lead_capture_mode, language, asked_about_brochure, booking_info and the *)
(* rest) and adds no key but A's; what a step of the turn can write and    *)
(* return is what it could with A's state alone in the store; and a form   *)
(* submission or a run of check_new_bookings leaves CONV_STATE as it was.  *)
(***************************************************************************)
\* the store with the state of sender p alone
OwnOnly(conv, p) == [q \in DOMAIN conv \cap {p} |-> conv[q]]

\* this step is a step of thread i
TurnStepOf(i) == running'.threads[i] # running.threads[i]

OthersKept(p) ==
    /\ DOMAIN CONV_STATE \subseteq DOMAIN CONV_STATE'
    /\ DOMAIN CONV_STATE' \subseteq DOMAIN CONV_STATE \cup {p}
    /\ \A q \in DOMAIN CONV_STATE \ {p} : CONV_STATE'[q] = CONV_STATE[q]

\* what a step of a turn writes to its sender's state and hands back
OwnPart(o, p) == [state |-> o.conv[p], reply |-> o.reply, calls |-> o.calls,
                  raised |-> o.raised]

\* what the next step of thread i can write and return is what it could
\* with the state of its sender alone in the store
ReadsOwnStateOnly(i) ==
    LET p    == SenderOf(i)
        text == running.threads[i].text
    IN  IF running.threads[i].pc = "entered"
        THEN {OwnPart(o, p) : o \in Route(CONV_STATE, p, text, Strip(Lower(text)),
                                          CONV_STATE[p])}
                 = {OwnPart(o, p) : o \in Route(OwnOnly(CONV_STATE, p), p, text,
                                                Strip(Lower(text)), CONV_STATE[p])}
        ELSE \A message_text \in InterleavedTexts :
                 Entered(CONV_STATE, p, message_text)
                     = Entered(OwnOnly(CONV_STATE, p), p, message_text)

C34_TurnTouchesOwnStateOnly ==
    /\ [](\A i \in DOMAIN running.threads : ReadsOwnStateOnly(i))
    /\ [][/\ \A i \in DOMAIN running.threads : TurnStepOf(i) => OthersKept(SenderOf(i))
          /\ (sheet' # sheet \/ polls' # polls) => CONV_STATE' = CONV_STATE]_vars

\* a turn returned while the turn of another sender, whose state the store
\* holds, was between its entry and its return, and check_new_bookings has
\* sent a confirmation to the number of a sender with a conversation
C34_Witness ==
    \E i \in DOMAIN running.threads :
        /\ running.threads[i].pc = "done"
        /\ running.threads[i].calls # <<>>
        /\ running.threads[i].beside # {}
        /\ \A j \in running.threads[i].beside :
               /\ running.threads[j].pc = "entered"
               /\ SenderOf(j) \in DOMAIN CONV_STATE
        /\ \E p \in 1..Len(polls) : \E k \in 1..Len(polls[p].sends) :
               \E q \in DOMAIN CONV_STATE : polls[p].sends[k].to = "+" \o q

====
